---- MODULE Spec2Model ----
(***************************************************************************)
(* Model of EmberPlusClient (src/nodes/EmberPlus/shared/EmberPlusClient.ts) *)
(* and of the path utilities it calls (pathUtils).  The device session     *)
(* (emberplus-connection's EmberClient) is the environment: its promises   *)
(* resolve, reject or stay pending, and it emits events at any time.       *)
(* Every action is one run-to-completion piece of JavaScript: a handler    *)
(* from its entry (or from the await it resumes at) up to its next await   *)
(* or its return.                                                          *)
(***************************************************************************)
EXTENDS Integers, Sequences, FiniteSets, Bags, TLC

\* ---------------------------------------------------------------- bounds
\* number of caller flows that may be inside the client at once
NumTasks == 2
\* cap on the number of session connect calls issued in one run
MaxConnects == 2
\* suspended flows of the trigger at a time
MaxPending == 2
\* client.connect() calls of the reconnect supervisor without an established subscription
MaxIssued == 6

\* ------------------------------------------------------ strings as <<chars>>
Whitespace == {" ", "\t", "\n", "\r"}
Digits == {"0", "1", "2", "3", "4", "5", "6", "7", "8", "9"}
Letters == {"a", "b", "c", "d", "e", "f", "g", "h", "i", "j", "k", "l", "m",
            "n", "o", "p", "q", "r", "s", "t", "u", "v", "w", "x", "y", "z",
            "A", "B", "C", "D", "E", "F", "G", "H", "I", "J", "K", "L", "M",
            "N", "O", "P", "Q", "R", "S", "T", "U", "V", "W", "X", "Y", "Z"}
\* the character class of /[/\\:*?"<>|]/
InvalidChars == {"/", "\\", ":", "*", "?", "\"", "<", ">", "|"}

RECURSIVE TrimStart(_)
TrimStart(s) ==
    IF s = <<>> THEN <<>>
    ELSE IF Head(s) \in Whitespace THEN TrimStart(Tail(s)) ELSE s

RECURSIVE TrimEnd(_)
TrimEnd(s) ==
    IF s = <<>> THEN <<>>
    ELSE IF s[Len(s)] \in Whitespace THEN TrimEnd(SubSeq(s, 1, Len(s) - 1)) ELSE s

\* String.prototype.trim
Trim(s) == TrimEnd(TrimStart(s))

\* String.prototype.split('.'): "" gives [""], "a." gives ["a", ""]
RECURSIVE SplitDot(_)
SplitDot(s) ==
    IF \A i \in DOMAIN s : s[i] # "."
    THEN <<s>>
    ELSE LET k == CHOOSE i \in DOMAIN s :
                      s[i] = "." /\ \A j \in 1..(i - 1) : s[j] # "."
         IN  <<SubSeq(s, 1, k - 1)>> \o SplitDot(SubSeq(s, k + 1, Len(s)))

\* /^\d+$/
isNumericSegment(segment) ==
    Len(segment) > 0 /\ \A i \in DOMAIN segment : segment[i] \in Digits

\* /^[a-zA-Z_][a-zA-Z0-9_]*$/
IsIdentifierSegment(segment) ==
    /\ Len(segment) > 0
    /\ segment[1] \in Letters \cup {"_"}
    /\ \A i \in DOMAIN segment : segment[i] \in Letters \cup Digits \cup {"_"}

\* /^[^.\n\r]+$/
IsFlexibleSegment(segment) ==
    Len(segment) > 0 /\ \A i \in DOMAIN segment : segment[i] \notin {".", "\n", "\r"}

\* validatePath with its tests made on path in the place of path.trim()
validatePath_Untrimmed(path) ==
    LET segments == SplitDot(path)
    IN  IF path = <<>> THEN TRUE
        ELSE IF \E i \in DOMAIN path : path[i] \in InvalidChars THEN FALSE
        ELSE IF \E i \in 1..(Len(path) - 1) : path[i] = "." /\ path[i + 1] = "."
             THEN FALSE
        ELSE IF path[1] = "." \/ path[Len(path)] = "." THEN FALSE
        ELSE \A k \in DOMAIN segments :
                /\ Len(segments[k]) # 0
                /\ (~isNumericSegment(segments[k]) /\ ~IsIdentifierSegment(segments[k]))
                      => IsFlexibleSegment(segments[k])

\* validatePath(path).valid
validatePath(path) ==
    LET trimmed == Trim(path)
        segments == SplitDot(trimmed)
    IN  IF trimmed = <<>> THEN TRUE
        ELSE IF \E i \in DOMAIN trimmed : trimmed[i] \in InvalidChars THEN FALSE
        ELSE IF \E i \in 1..(Len(trimmed) - 1) : trimmed[i] = "." /\ trimmed[i + 1] = "."
             THEN FALSE
        ELSE IF trimmed[1] = "." \/ trimmed[Len(trimmed)] = "." THEN FALSE
        ELSE \A k \in DOMAIN segments :
                /\ Len(segments[k]) # 0
                /\ (~isNumericSegment(segments[k]) /\ ~IsIdentifierSegment(segments[k]))
                      => IsFlexibleSegment(segments[k])

\* Array.prototype.join('.')
RECURSIVE JoinDot(_)
JoinDot(segments) ==
    IF segments = <<>> THEN <<>>
    ELSE IF Len(segments) = 1 THEN segments[1]
    ELSE segments[1] \o <<".">> \o JoinDot(Tail(segments))

\* .map((s) => s.trim()).filter((s) => s.length > 0)
RECURSIVE TrimmedNonEmpty(_)
TrimmedNonEmpty(segments) ==
    IF segments = <<>> THEN <<>>
    ELSE LET seg == Trim(Head(segments))
         IN  (IF seg = <<>> THEN <<>> ELSE <<seg>>) \o TrimmedNonEmpty(Tail(segments))

\* normalizePath without .map((s) => s.trim())
normalizePath_NoSegmentTrim(path) ==
    IF path = <<>> THEN <<>>
    ELSE JoinDot(SelectSeq(SplitDot(Trim(path)), LAMBDA seg : seg # <<>>))

\* normalizePath(path)
normalizePath(path) ==
    IF path = <<>> THEN <<>>
    ELSE JoinDot(TrimmedNonEmpty(SplitDot(Trim(path))))

\* -------------------------------------------------------------- results
Ok == [success |-> TRUE, errorCode |-> "undefined"]
Fail(code) == [success |-> FALSE, errorCode |-> code]

ErrorCodes == {"CONNECTION_FAILED", "CONNECTION_TIMEOUT", "NOT_CONNECTED",
               "DISCONNECTION_FAILED", "PATH_NOT_FOUND", "INVALID_PATH",
               "INVALID_VALUE", "OPERATION_FAILED", "SUBSCRIPTION_FAILED",
               "PERMISSION_DENIED", "DEVICE_ERROR"}

\* ------------------------------------------------------------------ inputs
\* path arguments the callers pass: "", " ", "a" and ".a"
PathInputs == {<<>>, <<" ">>, <<"a">>, <<".", "a">>}
Callbacks == {"cb1", "cb2"}
\* what the session's getElementByPath resolves to
Resolutions == {"null", "node", "parameter"}

\* two spellings with the same normalized form: "a" and "a "
AliasPathInputs == {<<"a">>, <<"a", " ">>}

\* the strings that pass validatePathInput, i.e. the possible registry keys
RegistryKeys ==
    {p \in PathInputs \cup AliasPathInputs : Trim(p) # <<>> /\ validatePath(p)}

VARIABLES
    connected,      \* EmberPlusClient.connected
    connecting,     \* EmberPlusClient.connecting
    subscriptions,  \* EmberPlusClient.subscriptions: path -> callback, "none" = no entry
    tasks,          \* the bag of suspended caller flows, each at its await
    sessionSubs,    \* paths whose update handler was handed to the session
    connectCalls,   \* number of session connect calls issued so far
    last            \* the step just taken: what ran, what it returned, which
                    \* session calls it issued, the lifecycle state before it

\* the closure variables of EmberPlusTrigger.trigger()
VARIABLES
    phase,              \* "idle", "starting" (initial connect), "running", "failed", "closed"
    onlyOnChange,       \* options.onlyOnChange ?? true
    previousValue,      \* let previousValue
    isFirstValue,       \* let isFirstValue
    isConnected,        \* let isConnected
    reconnectAttempts,  \* let reconnectAttempts
    pending,            \* the bag of suspended flows of the trigger, each at its await
    handler,            \* the update handler was handed to client.subscribe
    lastRecord,         \* value of the record emitted most recently, "none" before the first
    issued,             \* client.connect() calls of attemptReconnect since the
                        \* subscription was last established
    tlast               \* the trigger step just taken

\* the local variables of EmberPlus.execute()
VARIABLES
    nodePhase,       \* "idle", "connecting", "loop", "awaiting", "disconnecting", "done"
    continueOnFail,  \* this.continueOnFail()
    numItems,        \* items.length
    itemIndex,       \* itemIndex of the for loop, counted from 0
    current,         \* the item whose client operation is awaited
    returnData,      \* returnData
    raised,          \* execute() ends by throwing a NodeOperationError
    connectResult,   \* connectResult
    clientCalls,     \* the data operations execute() has called on the client
    disconnects,     \* how many times execute() has called client.disconnect()
    nlast            \* the step of execute() just taken

cvars == <<connected, connecting, subscriptions, tasks, sessionSubs, connectCalls, last>>
tvars == <<phase, onlyOnChange, previousValue, isFirstValue, isConnected,
           reconnectAttempts, pending, handler, lastRecord, issued, tlast>>
\* a call of the path utilities
VARIABLES
    pathArg,         \* the string handed to validatePath and isNumericPath
    pathResult,      \* what they returned, once they have
    ancestorArg,     \* the second string handed to isDescendantOf and isChildOf
    normalizeResult, \* what normalizePath returned, once and applied twice
    relationResult   \* what isDescendantOf and isChildOf returned

pvars == <<pathArg, pathResult, ancestorArg, normalizeResult, relationResult>>
nvars == <<nodePhase, continueOnFail, numItems, itemIndex, current, returnData,
           raised, connectResult, clientCalls, disconnects, nlast>>
vars == <<cvars, tvars, nvars, pvars>>

\* lifecycle state as isConnected()/connecting expose it
State ==
    IF connected THEN "Connected"
    ELSE IF connecting THEN "Connecting" ELSE "Disconnected"

\* a flow suspended at an await; timed = the awaited promise is raced
\* against a setTimeout rejection
Await(pc, op, path, cb, timed) ==
    [pc |-> pc, op |-> op, path |-> path, cb |-> cb, timed |-> timed]

Step(act, op, path, ret, res, calls, invoked) ==
    [act |-> act, op |-> op, path |-> path, ret |-> ret, res |-> res,
     calls |-> calls, pre |-> State, invoked |-> invoked, input |-> "none"]

\* a step that consumed an answer of the session: the node getElementByPath
\* resolved to, or whether a request carries a response promise
StepInput(act, op, path, ret, res, calls, input) ==
    [Step(act, op, path, ret, res, calls, "none") EXCEPT !.input = input]

\* a trigger step: what ran, the value it handled, what became of the value
\* ("emitted", "dropped", "threw" or "none"), and for a step that handled a
\* value the value of the record emitted before it
TStep(act, value, outcome, prior) ==
    [act |-> act, value |-> value, outcome |-> outcome, prior |-> prior]

\* trigger() has not been called
TriggerIdle ==
    /\ phase = "idle"
    /\ onlyOnChange = TRUE
    /\ previousValue = "undefined"
    /\ isFirstValue = TRUE
    /\ isConnected = FALSE
    /\ reconnectAttempts = 0
    /\ pending = EmptyBag
    /\ handler = FALSE
    /\ lastRecord = "none"
    /\ issued = 0
    /\ tlast = TStep("init", "none", "none", "none")

\* new EmberPlusClient(config, logger)
ClientInit ==
    /\ connected = FALSE
    /\ connecting = FALSE
    /\ subscriptions = [p \in RegistryKeys |-> "none"]
    /\ tasks = EmptyBag
    /\ sessionSubs = {}
    /\ connectCalls = 0
    /\ last = [act |-> "init", op |-> "none", path |-> <<>>, ret |-> FALSE,
               res |-> Ok, calls |-> {}, pre |-> "Disconnected", invoked |-> "none",
               input |-> "none"]

\* an item of the node's input as its parameters describe it
NodeItem(operation, path, value, valueType) ==
    [operation |-> operation, path |-> path, value |-> value, valueType |-> valueType]
NoItem == NodeItem("none", <<>>, <<>>, "none")

\* a step of execute(): what ran, for which itemIndex and item, and what the
\* client returned to it
NStep(act, index, item, res) ==
    [act |-> act, index |-> index, item |-> item, res |-> res]

\* execute() has not been called
NodeIdle ==
    /\ nodePhase = "idle"
    /\ continueOnFail = FALSE
    /\ numItems = 0
    /\ itemIndex = 0
    /\ current = NoItem
    /\ returnData = <<>>
    /\ raised = FALSE
    /\ connectResult = Ok
    /\ clientCalls = <<>>
    /\ disconnects = 0
    /\ nlast = NStep("init", 0, NoItem, Ok)

\* what the path utilities return: validatePath(path).valid and
\* isNumericPath(path)
PathResult(valid, isNumeric) ==
    [called |-> TRUE, valid |-> valid, isNumeric |-> isNumeric]
NotCalled == [called |-> FALSE, valid |-> FALSE, isNumeric |-> FALSE]

\* the path utilities are not called on their own
\* normalizePath(path) and normalizePath(normalizePath(path))
NormalizeResult(once, twice) == [called |-> TRUE, once |-> once, twice |-> twice]
NotNormalized == [called |-> FALSE, once |-> <<>>, twice |-> <<>>]

\* isDescendantOf(path, ancestorPath) and isChildOf(path, ancestorPath)
RelationResult(descendant, child) ==
    [called |-> TRUE, isDescendantOf |-> descendant, isChildOf |-> child]
NotRelated == [called |-> FALSE, isDescendantOf |-> FALSE, isChildOf |-> FALSE]

PathIdle ==
    /\ pathArg = <<>>
    /\ pathResult = NotCalled
    /\ ancestorArg = <<>>
    /\ normalizeResult = NotNormalized
    /\ relationResult = NotRelated

Init == ClientInit /\ TriggerIdle /\ NodeIdle /\ PathIdle

\* ------------------------------------------------------ private helpers
\* ensureConnected() without its check
ensureConnected_Skipped == Ok

\* ensureConnected()
ensureConnected ==
    IF ~connected THEN Fail("NOT_CONNECTED") ELSE Ok

\* validatePathInput(path) without the call of validatePath
validatePathInput_NoGrammar(path) ==
    IF path = <<>> \/ Trim(path) = <<>> THEN Fail("INVALID_PATH") ELSE Ok

\* validatePathInput(path)
validatePathInput(path) ==
    IF path = <<>> \/ Trim(path) = <<>> THEN Fail("INVALID_PATH")
    ELSE IF ~validatePath(path) THEN Fail("INVALID_PATH")
    ELSE Ok

\* handleOperationError: an EmberPlusError keeps its code, anything else
\* (a rejection of the session) becomes OPERATION_FAILED
handleOperationError(isEmberPlusError, code) ==
    IF isEmberPlusError THEN Fail(code) ELSE Fail("OPERATION_FAILED")

\* the suspended flows, and whether a caller is free to invoke an operation
Flows == BagToSet(tasks)
CallerFree == BagCardinality(tasks) < NumTasks

\* a new flow suspends at its first await
Start(pc, op, path, cb, timed) ==
    tasks' = tasks (+) SetToBag({Await(pc, op, path, cb, timed)})

\* the suspended flow f resumes and suspends at its next await
Resume(f, pc, op, path, cb, timed) ==
    tasks' = (tasks (-) SetToBag({f})) (+) SetToBag({Await(pc, op, path, cb, timed)})

\* the suspended flow f resumes and returns to its caller
Return(f) == tasks' = tasks (-) SetToBag({f})

\* ------------------------------------------------------- session events
\* The session has no socket before its connect is called for the first
\* time, so it emits its events only after that (connectCalls > 0).
\* client.on('error'): logs only
OnError ==
    /\ connectCalls > 0
    /\ last' = Step("onError", "none", <<>>, FALSE, Ok, {}, "none")
    /\ UNCHANGED <<connected, connecting, subscriptions, tasks, sessionSubs, connectCalls>>

\* the 'disconnected' handler forgetting the connecting flag
disconnectedFlags_KeepConnecting == [connected |-> FALSE, connecting |-> connecting]

\* the assignments of the 'disconnected' handler
disconnectedFlags == [connected |-> FALSE, connecting |-> FALSE]

\* client.on('disconnected')
OnDisconnected ==
    /\ connectCalls > 0
    /\ connected' = disconnectedFlags.connected
    /\ connecting' = disconnectedFlags.connecting
    /\ last' = Step("onDisconnected", "none", <<>>, FALSE, Ok, {}, "none")
    /\ UNCHANGED <<subscriptions, tasks, sessionSubs, connectCalls>>

\* the 'connected' handler forgetting the connecting flag
connectedFlags_KeepConnecting == [connected |-> TRUE, connecting |-> connecting]

\* the assignments of the 'connected' handler
connectedFlags == [connected |-> TRUE, connecting |-> FALSE]

\* client.on('connected')
OnConnected ==
    /\ connectCalls > 0
    /\ connected' = connectedFlags.connected
    /\ connecting' = connectedFlags.connecting
    /\ last' = Step("onConnected", "none", <<>>, FALSE, Ok, {}, "none")
    /\ UNCHANGED <<subscriptions, tasks, sessionSubs, connectCalls>>

\* ------------------------------------------------------------- connect()
\* connect() without the early return for an established connection
connectEntry_NoConnectedCheck ==
    IF connecting THEN "inProgress" ELSE "start"

\* the two early returns of connect()
connectEntry ==
    IF connected THEN "alreadyConnected"
    ELSE IF connecting THEN "inProgress" ELSE "start"

\* connect() up to its await of Promise.race([connectPromise, timeoutPromise])
Connect ==
    /\ CallerFree
    /\ \/ /\ connectEntry = "alreadyConnected"
          /\ UNCHANGED tasks
          /\ last' = Step("connect", "connect", <<>>, TRUE, Ok, {}, "none")
          /\ UNCHANGED <<connected, connecting, subscriptions, sessionSubs, connectCalls>>
       \/ /\ connectEntry = "inProgress"
          /\ UNCHANGED tasks
          \* { success: false, error: 'Connection already in progress' }
          /\ last' = Step("connect", "connect", <<>>, TRUE, Fail("undefined"), {}, "none")
          /\ UNCHANGED <<connected, connecting, subscriptions, sessionSubs, connectCalls>>
       \/ /\ connectEntry = "start"
          /\ connectCalls < MaxConnects
          /\ connecting' = TRUE
          /\ connectCalls' = connectCalls + 1
          /\ Start("connect", "connect", <<>>, "none", TRUE)
          /\ last' = Step("connect", "connect", <<>>, FALSE, Ok, {"connect"}, "none")
          /\ UNCHANGED <<connected, subscriptions, sessionSubs>>

\* the assignments after the race is won by the session's connect
connectSuccessFlags == [connected |-> TRUE, connecting |-> FALSE]

\* the session's connect promise resolves before the timer
ConnectResolved(f) ==
    /\ f.pc = "connect"
    /\ connected' = connectSuccessFlags.connected
    /\ connecting' = connectSuccessFlags.connecting
    /\ Return(f)
    /\ last' = Step("connectResolved", "connect", <<>>, TRUE, Ok, {}, "none")
    /\ UNCHANGED <<subscriptions, sessionSubs, connectCalls>>

\* connect()'s catch block forgetting the connecting flag
connectFailureFlags_KeepConnecting == [connected |-> FALSE, connecting |-> connecting]

\* the assignments of connect()'s catch block
connectFailureFlags == [connected |-> FALSE, connecting |-> FALSE]

\* the timer of connect() rejects first with createTimeoutError
ConnectTimedOut(f) ==
    /\ f.pc = "connect"
    /\ f.timed
    /\ connected' = connectFailureFlags.connected
    /\ connecting' = connectFailureFlags.connecting
    /\ Return(f)
    /\ last' = Step("connectTimedOut", "connect", <<>>, TRUE,
                    Fail("CONNECTION_TIMEOUT"), {}, "none")
    /\ UNCHANGED <<subscriptions, sessionSubs, connectCalls>>

\* the session's connect promise rejects first: createConnectionError
ConnectRejected(f) ==
    /\ f.pc = "connect"
    /\ connected' = connectFailureFlags.connected
    /\ connecting' = connectFailureFlags.connecting
    /\ Return(f)
    /\ last' = Step("connectRejected", "connect", <<>>, TRUE,
                    Fail("CONNECTION_FAILED"), {}, "none")
    /\ UNCHANGED <<subscriptions, sessionSubs, connectCalls>>

\* ---------------------------------------------------------- disconnect()
\* the early return of disconnect() with a lost negation
alreadyDisconnected_LostNegation == ~connected /\ connecting

\* the early return of disconnect()
alreadyDisconnected == ~connected /\ ~connecting

\* disconnect() up to its await of client.disconnect()
Disconnect ==
    /\ CallerFree
    /\ IF alreadyDisconnected
       THEN /\ UNCHANGED tasks
            /\ last' = Step("disconnect", "disconnect", <<>>, TRUE, Ok, {}, "none")
       ELSE /\ Start("disconnect", "disconnect", <<>>, "none", FALSE)
            /\ last' = Step("disconnect", "disconnect", <<>>, FALSE, Ok, {"disconnect"}, "none")
    /\ UNCHANGED <<connected, connecting, subscriptions, sessionSubs, connectCalls>>

\* state after the session's disconnect resolved
disconnectSuccessState ==
    [connected |-> FALSE, connecting |-> FALSE,
     subscriptions |-> [p \in RegistryKeys |-> "none"]]

\* the session's disconnect promise resolves
DisconnectResolved(f) ==
    /\ f.pc = "disconnect"
    /\ connected' = disconnectSuccessState.connected
    /\ connecting' = disconnectSuccessState.connecting
    /\ subscriptions' = disconnectSuccessState.subscriptions
    /\ Return(f)
    /\ last' = Step("disconnectResolved", "disconnect", <<>>, TRUE, Ok, {}, "none")
    /\ UNCHANGED <<sessionSubs, connectCalls>>

\* disconnect()'s catch block without subscriptions.clear()
disconnectFailureState_KeepRegistry ==
    [connected |-> FALSE, connecting |-> FALSE, subscriptions |-> subscriptions]

\* state after disconnect()'s catch block ("force state reset even on error")
disconnectFailureState ==
    [connected |-> FALSE, connecting |-> FALSE,
     subscriptions |-> [p \in RegistryKeys |-> "none"]]

\* the session's disconnect promise rejects
DisconnectRejected(f) ==
    /\ f.pc = "disconnect"
    /\ connected' = disconnectFailureState.connected
    /\ connecting' = disconnectFailureState.connecting
    /\ subscriptions' = disconnectFailureState.subscriptions
    /\ Return(f)
    /\ last' = Step("disconnectRejected", "disconnect", <<>>, TRUE,
                    Fail("DISCONNECTION_FAILED"), {}, "none")
    /\ UNCHANGED <<sessionSubs, connectCalls>>

\* ---------------------------------------------------------------- browse
\* the test "if (!node)" with the check left out
nodeMissing_Never(node) == FALSE

\* the test "if (!node)" after getElementByPath
nodeMissing(node) == node = "null"

\* the awaits of the data operations that go through withTimeout
TimedAwaits == {"getElementByPath", "getDirectoryResponse", "setValueResponse"}

\* browse(pathOrNode) up to its first await; "" stands for the omitted path
Browse(path) ==
    /\ CallerFree
    /\ IF ~ensureConnected.success
       THEN /\ UNCHANGED tasks
            /\ last' = Step("browse", "browse", path, TRUE, ensureConnected, {}, "none")
       ELSE IF path # <<>> /\ ~validatePathInput(path).success
       THEN /\ UNCHANGED tasks
            /\ last' = Step("browse", "browse", path, TRUE, validatePathInput(path), {}, "none")
       ELSE IF path # <<>>
       THEN /\ Start("getElementByPath", "browse", path, "none",
                       "getElementByPath" \in TimedAwaits)
            /\ last' = Step("browse", "browse", path, FALSE, Ok, {"getElementByPath"}, "none")
       ELSE \* node = this.client.tree
            /\ Start("getDirectory", "browse", path, "none",
                       "getDirectory" \in TimedAwaits)
            /\ last' = Step("browse", "browse", path, FALSE, Ok, {"getDirectory"}, "none")
    /\ UNCHANGED <<connected, connecting, subscriptions, sessionSubs, connectCalls>>

\* browse resumes with the node getElementByPath resolved to
BrowseResolved(f, node) ==
    /\ f.pc = "getElementByPath"
    /\ f.op = "browse"
    /\ IF nodeMissing(node)
       THEN /\ Return(f)
            /\ last' = StepInput("browseResolved", "browse", f.path, TRUE,
                            Fail("PATH_NOT_FOUND"), {}, node)
       ELSE /\ Resume(f, "getDirectory", "browse", f.path, "none",
                       "getDirectory" \in TimedAwaits)
            /\ last' = StepInput("browseResolved", "browse", f.path, FALSE, Ok,
                            {"getDirectory"}, node)
    /\ UNCHANGED <<connected, connecting, subscriptions, sessionSubs, connectCalls>>

\* the promise of getDirectory resolves to a request, with or without a
\* pending response promise
GetDirectorySent(f, hasResponse) ==
    /\ f.pc = "getDirectory"
    /\ IF hasResponse
       THEN /\ Resume(f, "getDirectoryResponse", "browse", f.path, "none",
                       "getDirectoryResponse" \in TimedAwaits)
            /\ last' = StepInput("getDirectorySent", "browse", f.path, FALSE, Ok, {}, "response")
       ELSE /\ Return(f)
            /\ last' = StepInput("getDirectorySent", "browse", f.path, TRUE, Ok, {}, "noResponse")
    /\ UNCHANGED <<connected, connecting, subscriptions, sessionSubs, connectCalls>>

\* the directory response arrives before the timer
GetDirectoryResponse(f) ==
    /\ f.pc = "getDirectoryResponse"
    /\ Return(f)
    /\ last' = Step("getDirectoryResponse", "browse", f.path, TRUE, Ok, {}, "none")
    /\ UNCHANGED <<connected, connecting, subscriptions, sessionSubs, connectCalls>>

\* ------------------------------------------------------------------- get
\* get(path) up to its await
Get(path) ==
    /\ CallerFree
    /\ IF ~ensureConnected.success
       THEN /\ UNCHANGED tasks
            /\ last' = Step("get", "get", path, TRUE, ensureConnected, {}, "none")
       ELSE IF ~validatePathInput(path).success
       THEN /\ UNCHANGED tasks
            /\ last' = Step("get", "get", path, TRUE, validatePathInput(path), {}, "none")
       ELSE /\ Start("getElementByPath", "get", path, "none",
                       "getElementByPath" \in TimedAwaits)
            /\ last' = Step("get", "get", path, FALSE, Ok, {"getElementByPath"}, "none")
    /\ UNCHANGED <<connected, connecting, subscriptions, sessionSubs, connectCalls>>

\* get resumes with the resolved node: its value, or its node info
GetResolved(f, node) ==
    /\ f.pc = "getElementByPath"
    /\ f.op = "get"
    /\ Return(f)
    /\ last' = StepInput("getResolved", "get", f.path, TRUE,
                    IF nodeMissing(node) THEN Fail("PATH_NOT_FOUND") ELSE Ok, {}, node)
    /\ UNCHANGED <<connected, connecting, subscriptions, sessionSubs, connectCalls>>

\* ------------------------------------------------------------------- set
\* set(path, value) up to its first await
Set(path) ==
    /\ CallerFree
    /\ IF ~ensureConnected.success
       THEN /\ UNCHANGED tasks
            /\ last' = Step("set", "set", path, TRUE, ensureConnected, {}, "none")
       ELSE IF ~validatePathInput(path).success
       THEN /\ UNCHANGED tasks
            /\ last' = Step("set", "set", path, TRUE, validatePathInput(path), {}, "none")
       ELSE /\ Start("getElementByPath", "set", path, "none",
                       "getElementByPath" \in TimedAwaits)
            /\ last' = Step("set", "set", path, FALSE, Ok, {"getElementByPath"}, "none")
    /\ UNCHANGED <<connected, connecting, subscriptions, sessionSubs, connectCalls>>

\* the test "'value' in contents" with the check left out
hasValueSlot_Always(node) == TRUE

\* the test "contents && 'value' in contents"
hasValueSlot(node) == node = "parameter"

\* set resumes with the resolved node
SetResolved(f, node) ==
    /\ f.pc = "getElementByPath"
    /\ f.op = "set"
    /\ IF nodeMissing(node)
       THEN /\ Return(f)
            /\ last' = StepInput("setResolved", "set", f.path, TRUE,
                            Fail("PATH_NOT_FOUND"), {}, node)
       ELSE IF ~hasValueSlot(node)
       THEN /\ Return(f)
            /\ last' = StepInput("setResolved", "set", f.path, TRUE,
                            Fail("INVALID_PATH"), {}, node)
       ELSE /\ Resume(f, "setValue", "set", f.path, "none",
                       "setValue" \in TimedAwaits)
            /\ last' = StepInput("setResolved", "set", f.path, FALSE, Ok,
                            {"setValue"}, node)
    /\ UNCHANGED <<connected, connecting, subscriptions, sessionSubs, connectCalls>>

\* the promise of setValue resolves to a request
SetValueSent(f, hasResponse) ==
    /\ f.pc = "setValue"
    /\ IF hasResponse
       THEN /\ Resume(f, "setValueResponse", "set", f.path, "none",
                       "setValueResponse" \in TimedAwaits)
            /\ last' = StepInput("setValueSent", "set", f.path, FALSE, Ok, {}, "response")
       ELSE /\ Return(f)
            /\ last' = StepInput("setValueSent", "set", f.path, TRUE, Ok, {}, "noResponse")
    /\ UNCHANGED <<connected, connecting, subscriptions, sessionSubs, connectCalls>>

\* the acknowledgement of the write arrives before the timer
SetValueResponse(f) ==
    /\ f.pc = "setValueResponse"
    /\ Return(f)
    /\ last' = Step("setValueResponse", "set", f.path, TRUE, Ok, {}, "none")
    /\ UNCHANGED <<connected, connecting, subscriptions, sessionSubs, connectCalls>>

\* ------------------------------------------------------------- subscribe
\* subscribe(path, callback) up to its first await
Subscribe(path, cb) ==
    /\ CallerFree
    /\ IF ~ensureConnected.success
       THEN /\ UNCHANGED tasks
            /\ last' = Step("subscribe", "subscribe", path, TRUE, ensureConnected, {}, "none")
       ELSE IF ~validatePathInput(path).success
       THEN /\ UNCHANGED tasks
            /\ last' = Step("subscribe", "subscribe", path, TRUE,
                            validatePathInput(path), {}, "none")
       ELSE /\ Start("getElementByPath", "subscribe", path, cb,
                       "getElementByPath" \in TimedAwaits)
            /\ last' = Step("subscribe", "subscribe", path, FALSE, Ok,
                            {"getElementByPath"}, "none")
    /\ UNCHANGED <<connected, connecting, subscriptions, sessionSubs, connectCalls>>

\* subscribe resumes with the resolved node: stores the callback and hands
\* the update handler of the path to the session
SubscribeResolved(f, node) ==
    /\ f.pc = "getElementByPath"
    /\ f.op = "subscribe"
    /\ IF nodeMissing(node)
       THEN /\ Return(f)
            /\ last' = StepInput("subscribeResolved", "subscribe", f.path, TRUE,
                            Fail("PATH_NOT_FOUND"), {}, node)
            /\ UNCHANGED <<subscriptions, sessionSubs>>
       ELSE /\ subscriptions' = [subscriptions EXCEPT ![f.path] = f.cb]
            /\ sessionSubs' = sessionSubs \cup {f.path}
            /\ Resume(f, "subscribe", "subscribe", f.path, f.cb,
                       "subscribe" \in TimedAwaits)
            /\ last' = StepInput("subscribeResolved", "subscribe", f.path, FALSE, Ok,
                            {"subscribe"}, node)
    /\ UNCHANGED <<connected, connecting, connectCalls>>

\* the promise of the session's subscribe resolves
SubscribeSent(f) ==
    /\ f.pc = "subscribe"
    /\ Return(f)
    /\ last' = Step("subscribeSent", "subscribe", f.path, TRUE, Ok, {}, "none")
    /\ UNCHANGED <<connected, connecting, subscriptions, sessionSubs, connectCalls>>

\* ----------------------------------------------- failures of the awaits
DataAwaits == {"getElementByPath", "getDirectory", "getDirectoryResponse",
               "setValue", "setValueResponse", "subscribe"}

\* the catch block of subscribe without subscriptions.delete(path)
CatchRegistry_NoRollback(f) == subscriptions

\* the catch blocks: subscribe removes the callback of the path
CatchRegistry(f) ==
    IF f.op = "subscribe"
    THEN [subscriptions EXCEPT ![f.path] = "none"]
    ELSE subscriptions

\* the awaited session promise rejects (or the call throws)
Rejected(f) ==
    /\ f.pc \in DataAwaits
    /\ subscriptions' = CatchRegistry(f)
    /\ Return(f)
    /\ last' = Step("rejected", f.op, f.path, TRUE,
                    handleOperationError(FALSE, "none"), {}, "none")
    /\ UNCHANGED <<connected, connecting, sessionSubs, connectCalls>>

\* the timer of withTimeout rejects first
TimedOut(f) ==
    /\ f.pc \in DataAwaits
    /\ f.timed
    /\ subscriptions' = CatchRegistry(f)
    /\ Return(f)
    /\ last' = Step("timedOut", f.op, f.path, TRUE,
                    handleOperationError(TRUE, "CONNECTION_TIMEOUT"), {}, "none")
    /\ UNCHANGED <<connected, connecting, sessionSubs, connectCalls>>

\* ----------------------------------------------- unsubscribe and updates
\* unsubscribe(path): Map.delete
\* this.subscriptions.delete(path)
deleted_ClearsAll(path) == [p \in RegistryKeys |-> "none"]
deleted(path) ==
    [p \in RegistryKeys |-> IF p = path THEN "none" ELSE subscriptions[p]]

Unsubscribe(path) ==
    /\ subscriptions' = deleted(path)
    /\ last' = Step("unsubscribe", "unsubscribe", path, TRUE,
                    [success |-> path \in RegistryKeys /\ subscriptions[path] # "none",
                     errorCode |-> "undefined"], {}, "none")
    /\ UNCHANGED <<connected, connecting, tasks, sessionSubs, connectCalls>>

\* the update handler without its try/catch around the callback
handlerResult_NoCatch(throws) ==
    IF throws THEN Fail("raised") ELSE Ok

\* how the update handler ends for the session that called it: the try/catch
\* around cb(value, path) logs what the callback throws
handlerResult(throws) == Ok

\* the session delivers an update to the handler subscribe registered for
\* path; the callback found in the registry returns or throws
OnUpdate(path, throws) ==
    /\ path \in sessionSubs
    /\ subscriptions[path] = "none" => ~throws
    /\ last' = [Step("onUpdate", "none", path, FALSE,
                     handlerResult(subscriptions[path] # "none" /\ throws), {},
                     subscriptions[path])
                EXCEPT !.input = IF subscriptions[path] = "none" THEN "none"
                                 ELSE IF throws THEN "throws" ELSE "returns"]
    /\ UNCHANGED <<connected, connecting, subscriptions, tasks, sessionSubs, connectCalls>>

\* ------------------------------------------------------------------ Next
Next ==
    \/ OnError /\ UNCHANGED <<tvars, nvars, pvars>>
    \/ OnDisconnected /\ UNCHANGED <<tvars, nvars, pvars>>
    \/ OnConnected /\ UNCHANGED <<tvars, nvars, pvars>>
    \/ Connect /\ UNCHANGED <<tvars, nvars, pvars>>
    \/ \E f \in Flows : ConnectResolved(f) /\ UNCHANGED <<tvars, nvars, pvars>>
    \/ \E f \in Flows : ConnectTimedOut(f) /\ UNCHANGED <<tvars, nvars, pvars>>
    \/ \E f \in Flows : ConnectRejected(f) /\ UNCHANGED <<tvars, nvars, pvars>>
    \/ Disconnect /\ UNCHANGED <<tvars, nvars, pvars>>
    \/ \E f \in Flows : DisconnectResolved(f) /\ UNCHANGED <<tvars, nvars, pvars>>
    \/ \E f \in Flows : DisconnectRejected(f) /\ UNCHANGED <<tvars, nvars, pvars>>
    \/ \E path \in PathInputs : Browse(path) /\ UNCHANGED <<tvars, nvars, pvars>>
    \/ \E f \in Flows, node \in Resolutions : BrowseResolved(f, node) /\ UNCHANGED <<tvars, nvars, pvars>>
    \/ \E f \in Flows, hasResponse \in BOOLEAN : GetDirectorySent(f, hasResponse) /\ UNCHANGED <<tvars, nvars, pvars>>
    \/ \E f \in Flows : GetDirectoryResponse(f) /\ UNCHANGED <<tvars, nvars, pvars>>
    \/ \E path \in PathInputs : Get(path) /\ UNCHANGED <<tvars, nvars, pvars>>
    \/ \E f \in Flows, node \in Resolutions : GetResolved(f, node) /\ UNCHANGED <<tvars, nvars, pvars>>
    \/ \E path \in PathInputs : Set(path) /\ UNCHANGED <<tvars, nvars, pvars>>
    \/ \E f \in Flows, node \in Resolutions : SetResolved(f, node) /\ UNCHANGED <<tvars, nvars, pvars>>
    \/ \E f \in Flows, hasResponse \in BOOLEAN : SetValueSent(f, hasResponse) /\ UNCHANGED <<tvars, nvars, pvars>>
    \/ \E f \in Flows : SetValueResponse(f) /\ UNCHANGED <<tvars, nvars, pvars>>
    \/ \E path \in PathInputs, cb \in Callbacks : Subscribe(path, cb) /\ UNCHANGED <<tvars, nvars, pvars>>
    \/ \E f \in Flows, node \in Resolutions : SubscribeResolved(f, node) /\ UNCHANGED <<tvars, nvars, pvars>>
    \/ \E f \in Flows : SubscribeSent(f) /\ UNCHANGED <<tvars, nvars, pvars>>
    \/ \E f \in Flows : Rejected(f) /\ UNCHANGED <<tvars, nvars, pvars>>
    \/ \E f \in Flows : TimedOut(f) /\ UNCHANGED <<tvars, nvars, pvars>>
    \/ \E path \in PathInputs : Unsubscribe(path) /\ UNCHANGED <<tvars, nvars, pvars>>
    \/ \E path \in PathInputs, throws \in BOOLEAN : OnUpdate(path, throws) /\ UNCHANGED <<tvars, nvars, pvars>>

Spec == Init /\ [][Next]_vars

\* The registry under subscribe, unsubscribe, disconnect and updates, with
\* callers that spell one canonical path in two ways.
NextAlias ==
    \/ OnDisconnected /\ UNCHANGED <<tvars, nvars, pvars>>
    \/ Connect /\ UNCHANGED <<tvars, nvars, pvars>>
    \/ \E f \in Flows : ConnectResolved(f) /\ UNCHANGED <<tvars, nvars, pvars>>
    \/ Disconnect /\ UNCHANGED <<tvars, nvars, pvars>>
    \/ \E f \in Flows : DisconnectResolved(f) /\ UNCHANGED <<tvars, nvars, pvars>>
    \/ \E path \in AliasPathInputs, cb \in Callbacks : Subscribe(path, cb) /\ UNCHANGED <<tvars, nvars, pvars>>
    \/ \E f \in Flows, node \in Resolutions : SubscribeResolved(f, node) /\ UNCHANGED <<tvars, nvars, pvars>>
    \/ \E f \in Flows : SubscribeSent(f) /\ UNCHANGED <<tvars, nvars, pvars>>
    \/ \E f \in Flows : Rejected(f) /\ UNCHANGED <<tvars, nvars, pvars>>
    \/ \E f \in Flows : TimedOut(f) /\ UNCHANGED <<tvars, nvars, pvars>>
    \/ \E path \in AliasPathInputs : Unsubscribe(path) /\ UNCHANGED <<tvars, nvars, pvars>>
    \/ \E path \in AliasPathInputs, throws \in BOOLEAN : OnUpdate(path, throws) /\ UNCHANGED <<tvars, nvars, pvars>>

AliasSpec == Init /\ [][NextAlias]_vars

TypeOK ==
    /\ connected \in BOOLEAN
    /\ connecting \in BOOLEAN
    /\ subscriptions \in [RegistryKeys -> Callbacks \cup {"none"}]
    /\ sessionSubs \subseteq RegistryKeys
    /\ connectCalls \in 0..MaxConnects
    /\ IsABag(tasks)
    /\ BagCardinality(tasks) <= NumTasks
    /\ \A f \in Flows : f.pc \in DataAwaits \cup {"connect", "disconnect"}

\* ================================================= EmberPlusTrigger.trigger
\* The trigger node drives an EmberClient of its own: none of its steps
\* touches an EmberPlusClient.

\* const maxReconnectAttempts = 5
maxReconnectAttempts == 5

\* values a parameter can carry: a number, the reals NaN and null
Values == {"1", "NaN", "null"}

\* JSON.stringify(value): NaN is written as null; undefined has no text
stringify(value) ==
    IF value = "NaN" THEN "null" ELSE value

\* what the session resolves the watched path to: nothing, a node without
\* a value, or a parameter with its current value
TriggerNodes == {"missing", "container"} \cup Values

\* what the session hands to the update handler: an envelope with a value
\* field, or the bare value
Updates == {"envelope", "bare"} \X Values

\* extractValue(update)
extractValue(update) ==
    IF update[1] = "envelope" THEN update[2] ELSE update[2]

\* a suspended flow of the trigger: where it waits and who awaits its
\* connect(): the initial try block, attemptReconnect, or neither
TFlow(pc, chain) == [pc |-> pc, chain |-> chain]
TFlows == BagToSet(pending)
TReplace(f, g) == (pending (-) SetToBag({f})) (+) SetToBag({g})
TRoom == BagCardinality(pending) < MaxPending

\* the state after the synchronous part of trigger(): options read, handlers
\* registered, connect() waiting for the race of client.connect() and timer
TriggerInit ==
    /\ ClientInit
    /\ NodeIdle
    /\ PathIdle
    /\ phase = "starting"
    /\ onlyOnChange \in BOOLEAN
    /\ previousValue = "undefined"
    /\ isFirstValue = TRUE
    /\ isConnected = FALSE
    /\ reconnectAttempts = 0
    /\ pending = SetToBag({TFlow("connect", "initial")})
    /\ handler = FALSE
    /\ lastRecord = "none"
    /\ issued = 0
    /\ tlast = TStep("trigger", "none", "none", "none")

\* outputData.previousValue of the record emitValue builds, with the Include
\* Previous Value option enabled: the field is left out of the first record
outputPreviousValue == IF isFirstValue THEN "absent" ELSE previousValue

\* emitValue without previousValue = value
emitValue_KeepsPrevious(value, throws) ==
    IF throws
    THEN UNCHANGED <<previousValue, isFirstValue, lastRecord>>
    ELSE /\ UNCHANGED previousValue
         /\ isFirstValue' = FALSE
         /\ lastRecord' = value

\* emitValue(value): this.emit may throw, and then the two assignments
\* after it are skipped
emitValue(value, throws) ==
    IF throws
    THEN UNCHANGED <<previousValue, isFirstValue, lastRecord>>
    ELSE /\ previousValue' = value
         /\ isFirstValue' = FALSE
         /\ lastRecord' = value

\* the comparison of the update handler, never finding two values equal
unchanged_Never(newValue) == FALSE

\* JSON.stringify(newValue) === JSON.stringify(previousValue)
unchanged(newValue) == stringify(newValue) = stringify(previousValue)

\* the filter of the update handler, forgetting the first-value flag
skipped_IgnoresFirst(newValue) == onlyOnChange /\ unchanged(newValue)

\* the filter of the update handler
skipped(newValue) == onlyOnChange /\ ~isFirstValue /\ unchanged(newValue)

\* the handler given to client.subscribe runs for an update
TriggerOnUpdate(update, throws) ==
    /\ handler
    /\ LET newValue == extractValue(update)
       IN  IF skipped(newValue)
           THEN /\ UNCHANGED <<previousValue, isFirstValue, lastRecord>>
                /\ tlast' = TStep("update", newValue, "dropped", lastRecord)
           ELSE /\ emitValue(newValue, throws)
                /\ tlast' = TStep("update", newValue,
                                  IF throws THEN "threw" ELSE "emitted", lastRecord)
    /\ UNCHANGED <<phase, onlyOnChange, isConnected, reconnectAttempts, pending,
                   handler>>
    /\ UNCHANGED cvars

\* attemptReconnect() never giving up
exhausted_Never == FALSE

\* reconnectAttempts >= maxReconnectAttempts
exhausted == reconnectAttempts >= maxReconnectAttempts

\* attemptReconnect() up to its await of the delay; rest is the bag of the
\* other suspended flows
attemptReconnect(rest) ==
    IF exhausted
    THEN /\ pending' = rest
         /\ UNCHANGED reconnectAttempts
    ELSE /\ reconnectAttempts' = reconnectAttempts + 1
         /\ pending' = rest (+) SetToBag({TFlow("delay", "reconnect")})

\* connect() throws in flow f: the initial try block cleans up with
\* client.disconnect() and throws, attemptReconnect's catch calls
\* attemptReconnect() again
connectThrows(f) ==
    IF f.chain = "initial"
    THEN /\ pending' = TReplace(f, TFlow("cleanup", "initial"))
         /\ UNCHANGED reconnectAttempts
    ELSE attemptReconnect(pending (-) SetToBag({f}))

\* connect() forgetting to reset the counter
attemptsAfterConnect_Kept == reconnectAttempts

\* reconnectAttempts = 0 in connect()
attemptsAfterConnect == 0

\* the race of connect() is won by client.connect()
TriggerConnectResolved(f) ==
    /\ f.pc = "connect"
    /\ isConnected' = TRUE
    /\ reconnectAttempts' = attemptsAfterConnect
    /\ pending' = TReplace(f, TFlow("resolve", f.chain))
    /\ tlast' = TStep("connectResolved", "none", "none", "none")
    /\ UNCHANGED <<phase, onlyOnChange, previousValue, isFirstValue, handler,
                   lastRecord>>
    /\ UNCHANGED cvars

\* the race of connect() rejects: client.connect() rejected or the timer fired
TriggerConnectFailed(f) ==
    /\ f.pc = "connect"
    /\ connectThrows(f)
    /\ tlast' = TStep("connectFailed", "none", "none", "none")
    /\ UNCHANGED <<phase, onlyOnChange, previousValue, isFirstValue, isConnected,
                   handler, lastRecord>>
    /\ UNCHANGED cvars

\* setupSubscription() leaving out the initial value
fetched_Skipped(node) == previousValue

\* if (contents && 'value' in contents) previousValue = contents.value
fetched(node) == IF node \in Values THEN node ELSE previousValue

\* setupSubscription() after client.getElementByPath(path) resolved
TriggerResolved(f, node) ==
    /\ f.pc = "resolve"
    /\ IF node = "missing"
       THEN /\ connectThrows(f)
            /\ UNCHANGED <<previousValue, handler>>
       ELSE /\ previousValue' = fetched(node)
            /\ handler' = TRUE
            /\ pending' = TReplace(f, TFlow("subscribe", f.chain))
            /\ UNCHANGED reconnectAttempts
    /\ tlast' = TStep("resolved", node, "none", "none")
    /\ UNCHANGED <<phase, onlyOnChange, isFirstValue, isConnected, lastRecord>>
    /\ UNCHANGED cvars

\* client.getElementByPath or client.subscribe rejects in setupSubscription()
TriggerSetupRejected(f) ==
    /\ f.pc \in {"resolve", "subscribe"}
    /\ connectThrows(f)
    /\ tlast' = TStep("setupRejected", "none", "none", "none")
    /\ UNCHANGED <<phase, onlyOnChange, previousValue, isFirstValue, isConnected,
                   handler, lastRecord>>
    /\ UNCHANGED cvars

\* client.subscribe resolved: connect() returns
TriggerSubscribed(f) ==
    /\ f.pc = "subscribe"
    /\ pending' = pending (-) SetToBag({f})
    /\ phase' = IF f.chain = "initial" THEN "running" ELSE phase
    /\ tlast' = TStep("subscribed", "none", "none", "none")
    /\ UNCHANGED <<onlyOnChange, previousValue, isFirstValue, isConnected,
                   reconnectAttempts, handler, lastRecord>>
    /\ UNCHANGED cvars

\* the cleanup client.disconnect() of the initial catch block settled:
\* trigger() throws
TriggerCleanupDone(f) ==
    /\ f.pc = "cleanup"
    /\ pending' = pending (-) SetToBag({f})
    /\ phase' = "failed"
    /\ tlast' = TStep("cleanupDone", "none", "none", "none")
    /\ UNCHANGED <<onlyOnChange, previousValue, isFirstValue, isConnected,
                   reconnectAttempts, handler, lastRecord>>
    /\ UNCHANGED cvars

\* client.on('error'): logs only
TriggerOnError ==
    /\ phase # "idle"
    /\ tlast' = TStep("onError", "none", "none", "none")
    /\ UNCHANGED <<phase, onlyOnChange, previousValue, isFirstValue, isConnected,
                   reconnectAttempts, pending, handler, lastRecord>>
    /\ UNCHANGED cvars

\* client.on('disconnected')
TriggerOnDisconnected ==
    /\ phase # "idle"
    /\ exhausted \/ TRoom
    /\ isConnected' = FALSE
    /\ attemptReconnect(pending)
    /\ tlast' = TStep("onDisconnected", "none", "none", "none")
    /\ UNCHANGED <<phase, onlyOnChange, previousValue, isFirstValue, handler,
                   lastRecord>>
    /\ UNCHANGED cvars

\* client.on('connected')
TriggerOnConnected ==
    /\ phase # "idle"
    /\ isConnected' = TRUE
    /\ tlast' = TStep("onConnected", "none", "none", "none")
    /\ UNCHANGED <<phase, onlyOnChange, previousValue, isFirstValue,
                   reconnectAttempts, pending, handler, lastRecord>>
    /\ UNCHANGED cvars

\* attemptReconnect() after its delay: connect() calls client.connect()
TriggerDelayElapsed(f) ==
    /\ f.pc = "delay"
    /\ pending' = TReplace(f, TFlow("connect", "reconnect"))
    /\ tlast' = TStep("delayElapsed", "none", "none", "none")
    /\ UNCHANGED <<phase, onlyOnChange, previousValue, isFirstValue, isConnected,
                   reconnectAttempts, handler, lastRecord>>
    /\ UNCHANGED cvars

\* manualTriggerFunction() without its connection check
probeAllowed_Always == TRUE

\* if (!isConnected) return
probeAllowed == isConnected

\* manualTriggerFunction() up to its await of client.getElementByPath(path)
ManualTrigger ==
    /\ phase = "running"
    /\ IF ~probeAllowed
       THEN UNCHANGED pending
       ELSE /\ TRoom
            /\ pending' = pending (+) SetToBag({TFlow("manualResolve", "manual")})
    /\ tlast' = TStep("manual", "none", "none", "none")
    /\ UNCHANGED <<phase, onlyOnChange, previousValue, isFirstValue, isConnected,
                   reconnectAttempts, handler, lastRecord>>
    /\ UNCHANGED cvars

\* manualTriggerFunction() after the path resolved
ManualResolved(f, node, throws) ==
    /\ f.pc = "manualResolve"
    /\ pending' = pending (-) SetToBag({f})
    /\ IF node \in Values
       THEN /\ emitValue(node, throws)
            /\ tlast' = TStep("manualResolved", node,
                              IF throws THEN "threw" ELSE "emitted", lastRecord)
       ELSE /\ UNCHANGED <<previousValue, isFirstValue, lastRecord>>
            /\ tlast' = TStep("manualResolved", node, "none", "none")
    /\ UNCHANGED <<phase, onlyOnChange, isConnected, reconnectAttempts, handler>>
    /\ UNCHANGED cvars

\* manualTriggerFunction(): client.getElementByPath rejects, logged
ManualRejected(f) ==
    /\ f.pc = "manualResolve"
    /\ pending' = pending (-) SetToBag({f})
    /\ tlast' = TStep("manualRejected", "none", "none", "none")
    /\ UNCHANGED <<phase, onlyOnChange, previousValue, isFirstValue, isConnected,
                   reconnectAttempts, handler, lastRecord>>
    /\ UNCHANGED cvars

\* closeFunction() up to its await of client.disconnect()
Close ==
    /\ phase = "running"
    /\ TRoom
    /\ phase' = "closed"
    /\ pending' = pending (+) SetToBag({TFlow("close", "close")})
    /\ tlast' = TStep("close", "none", "none", "none")
    /\ UNCHANGED <<onlyOnChange, previousValue, isFirstValue, isConnected,
                   reconnectAttempts, handler, lastRecord>>
    /\ UNCHANGED cvars

\* closeFunction() after client.disconnect() resolved or rejected
CloseDone(f) ==
    /\ f.pc = "close"
    /\ isConnected' = FALSE
    /\ pending' = pending (-) SetToBag({f})
    /\ tlast' = TStep("closeDone", "none", "none", "none")
    /\ UNCHANGED <<phase, onlyOnChange, previousValue, isFirstValue,
                   reconnectAttempts, handler, lastRecord>>
    /\ UNCHANGED cvars

\* issued counts the client.connect() calls of attemptReconnect; it starts
\* again at zero when a subscription is established
Counted ==
    /\ issued' = IF tlast'.act = "subscribed" THEN 0
                 ELSE IF tlast'.act = "delayElapsed" THEN issued + 1
                 ELSE issued
    /\ issued' <= MaxIssued

TriggerNext ==
    \/ \E update \in Updates, throws \in BOOLEAN : TriggerOnUpdate(update, throws) /\ UNCHANGED <<issued, nvars, pvars>>
    \/ \E f \in TFlows : TriggerConnectResolved(f) /\ UNCHANGED <<issued, nvars, pvars>>
    \/ \E f \in TFlows : TriggerConnectFailed(f) /\ UNCHANGED <<issued, nvars, pvars>>
    \/ \E f \in TFlows, node \in TriggerNodes : TriggerResolved(f, node) /\ UNCHANGED <<issued, nvars, pvars>>
    \/ \E f \in TFlows : TriggerSetupRejected(f) /\ UNCHANGED <<issued, nvars, pvars>>
    \/ \E f \in TFlows : TriggerSubscribed(f) /\ UNCHANGED <<issued, nvars, pvars>>
    \/ \E f \in TFlows : TriggerCleanupDone(f) /\ UNCHANGED <<issued, nvars, pvars>>
    \/ TriggerOnError /\ UNCHANGED <<issued, nvars, pvars>>
    \/ TriggerOnDisconnected /\ UNCHANGED <<issued, nvars, pvars>>
    \/ TriggerOnConnected /\ UNCHANGED <<issued, nvars, pvars>>
    \/ \E f \in TFlows : TriggerDelayElapsed(f) /\ UNCHANGED <<issued, nvars, pvars>>
    \/ ManualTrigger /\ UNCHANGED <<issued, nvars, pvars>>
    \/ \E f \in TFlows, node \in TriggerNodes, throws \in BOOLEAN : ManualResolved(f, node, throws) /\ UNCHANGED <<issued, nvars, pvars>>
    \/ \E f \in TFlows : ManualRejected(f) /\ UNCHANGED <<issued, nvars, pvars>>
    \/ Close /\ UNCHANGED <<issued, nvars, pvars>>
    \/ \E f \in TFlows : CloseDone(f) /\ UNCHANGED <<issued, nvars, pvars>>

TriggerSpec == TriggerInit /\ [][TriggerNext]_vars

\* a running trigger with its subscription established
TriggerRunning ==
    /\ ClientInit
    /\ NodeIdle
    /\ PathIdle
    /\ phase = "running"
    /\ onlyOnChange = TRUE
    /\ previousValue = "1"
    /\ isFirstValue = TRUE
    /\ isConnected = TRUE
    /\ reconnectAttempts = 0
    /\ pending = EmptyBag
    /\ handler = TRUE
    /\ lastRecord = "none"
    /\ issued = 0
    /\ tlast = TStep("subscribed", "none", "none", "none")

\* the reconnect supervisor against a session whose connect always fails
FailingSessionNext ==
    \/ TriggerOnError /\ Counted /\ UNCHANGED <<nvars, pvars>>
    \/ TriggerOnDisconnected /\ Counted /\ UNCHANGED <<nvars, pvars>>
    \/ \E f \in TFlows : TriggerDelayElapsed(f) /\ Counted /\ UNCHANGED <<nvars, pvars>>
    \/ \E f \in TFlows : TriggerConnectFailed(f) /\ Counted /\ UNCHANGED <<nvars, pvars>>
    \/ \E f \in TFlows : TriggerCleanupDone(f) /\ Counted /\ UNCHANGED <<nvars, pvars>>
    \/ Close /\ Counted /\ UNCHANGED <<nvars, pvars>>
    \/ \E f \in TFlows : CloseDone(f) /\ Counted /\ UNCHANGED <<nvars, pvars>>

\* the session fails from the start, or from a running trigger on
FailingSessionInit == TriggerInit \/ TriggerRunning

FailingSessionSpec == FailingSessionInit /\ [][FailingSessionNext]_vars

\* the reconnect supervisor against a session that connects, while resolving
\* or subscribing the watched path may fail
FailingSetupNext ==
    \/ TriggerOnDisconnected /\ Counted /\ UNCHANGED <<nvars, pvars>>
    \/ \E f \in TFlows : TriggerDelayElapsed(f) /\ Counted /\ UNCHANGED <<nvars, pvars>>
    \/ \E f \in TFlows : TriggerConnectResolved(f) /\ Counted /\ UNCHANGED <<nvars, pvars>>
    \/ \E f \in TFlows : TriggerConnectFailed(f) /\ Counted /\ UNCHANGED <<nvars, pvars>>
    \/ \E f \in TFlows, node \in TriggerNodes :
            TriggerResolved(f, node) /\ Counted /\ UNCHANGED <<nvars, pvars>>
    \/ \E f \in TFlows : TriggerSetupRejected(f) /\ Counted /\ UNCHANGED <<nvars, pvars>>
    \/ \E f \in TFlows : TriggerSubscribed(f) /\ Counted /\ UNCHANGED <<nvars, pvars>>

FailingSetupSpec == TriggerRunning /\ [][FailingSetupNext]_vars

\* an EmberPlusClient that is connected and holds a subscription of "a"
\* (after connect() and subscribe("a", cb1) returned success)
ClientSubscribed ==
    /\ connected = TRUE
    /\ connecting = FALSE
    /\ subscriptions = [p \in RegistryKeys |-> IF p = <<"a">> THEN "cb1" ELSE "none"]
    /\ tasks = EmptyBag
    /\ sessionSubs = {<<"a">>}
    /\ connectCalls = 1
    /\ last = [act |-> "subscribeSent", op |-> "subscribe", path |-> <<"a">>,
               ret |-> TRUE, res |-> Ok, calls |-> {}, pre |-> "Connected",
               invoked |-> "none", input |-> "none"]

\* a running trigger with its subscription established, with either setting
\* of onlyOnChange
TriggerSubscribedState ==
    /\ phase = "running"
    /\ onlyOnChange \in BOOLEAN
    /\ previousValue = "1"
    /\ isFirstValue = TRUE
    /\ isConnected = TRUE
    /\ reconnectAttempts = 0
    /\ pending = EmptyBag
    /\ handler = TRUE
    /\ lastRecord = "none"
    /\ issued = 0
    /\ tlast = TStep("subscribed", "none", "none", "none")

\* the two update dispatchers, of the client and of the trigger, with
\* callbacks and emissions that may throw
DispatchNext ==
    \/ \E path \in PathInputs, throws \in BOOLEAN : OnUpdate(path, throws) /\ UNCHANGED <<tvars, nvars, pvars>>
    \/ \E path \in PathInputs : Unsubscribe(path) /\ UNCHANGED <<tvars, nvars, pvars>>
    \/ OnDisconnected /\ UNCHANGED <<tvars, nvars, pvars>>
    \/ OnConnected /\ UNCHANGED <<tvars, nvars, pvars>>
    \/ \E update \in Updates, throws \in BOOLEAN : TriggerOnUpdate(update, throws) /\ UNCHANGED <<issued, nvars, pvars>>
    \/ TriggerOnConnected /\ UNCHANGED <<issued, nvars, pvars>>
    \/ TriggerOnError /\ UNCHANGED <<issued, nvars, pvars>>

DispatchInit == ClientSubscribed /\ TriggerSubscribedState /\ NodeIdle /\ PathIdle

DispatchSpec == DispatchInit /\ [][DispatchNext]_vars

TriggerTypeOK ==
    /\ phase \in {"idle", "starting", "running", "failed", "closed"}
    /\ onlyOnChange \in BOOLEAN
    /\ previousValue \in Values \cup {"undefined"}
    /\ isFirstValue \in BOOLEAN
    /\ isConnected \in BOOLEAN
    /\ reconnectAttempts \in 0..maxReconnectAttempts
    /\ IsABag(pending)
    /\ handler \in BOOLEAN
    /\ lastRecord \in Values \cup {"none"}
    /\ issued \in 0..MaxIssued

\* ======================================================== EmberPlus.execute
\* execute() owns a client of its own; what that client returns is the
\* environment here: connect() returns one of its three results and a data
\* operation returns success or one of the failures its code can build.

MaxItems == 2

\* String.prototype.toLowerCase on the letters of the literals
UpperCase == <<"E", "N", "O", "S", "T", "Y">>
LowerCase == <<"e", "n", "o", "s", "t", "y">>
toLowerCase(s) ==
    [i \in 1..Len(s) |->
        IF \E k \in 1..Len(UpperCase) : UpperCase[k] = s[i]
        THEN LowerCase[CHOOSE k \in 1..Len(UpperCase) : UpperCase[k] = s[i]]
        ELSE s[i]]

\* the decimal numeral without its leading zeros
RECURSIVE StripZeros(_)
StripZeros(d) ==
    IF Len(d) > 1 /\ Head(d) = "0" THEN StripZeros(Tail(d)) ELSE d

\* Number(rawValue) on strings of digits, letters and white space: white
\* space is trimmed, the empty string is 0, a decimal numeral is its number
\* and anything else is NaN
NaN == <<"N", "a", "N">>
Number(rawValue) ==
    LET t == Trim(rawValue)
    IN  IF t = <<>> THEN <<"0">>
        ELSE IF \A i \in 1..Len(t) : t[i] \in Digits THEN StripZeros(t)
        ELSE NaN

BooleanLiterals == {<<"t", "r", "u", "e">>, <<"f", "a", "l", "s", "e">>, <<"1">>,
                    <<"0">>, <<"y", "e", "s">>, <<"n", "o">>}
TrueLiterals == {<<"t", "r", "u", "e">>, <<"1">>, <<"y", "e", "s">>}

Typed(kind, text) == [kind |-> kind, text |-> text]
NoValue == Typed("none", <<>>)
Invalid == Typed("invalid", <<>>)

\* the number case without its isNaN test
numberValue_NoCheck(rawValue) == Typed("number", Number(rawValue))

\* the number case of executeSet's switch
numberValue(rawValue) ==
    IF Number(rawValue) = NaN THEN Invalid ELSE Typed("number", Number(rawValue))

\* the boolean case of executeSet's switch
booleanValue(rawValue) ==
    LET lowerValue == Trim(toLowerCase(rawValue))
    IN  IF lowerValue \notin BooleanLiterals THEN Invalid
        ELSE Typed("boolean", IF lowerValue \in TrueLiterals
                              THEN <<"t", "r", "u", "e">>
                              ELSE <<"f", "a", "l", "s", "e">>)

\* typedValue of executeSet, or Invalid where the switch throws
typedValue(rawValue, valueType) ==
    CASE valueType = "number" -> numberValue(rawValue)
      [] valueType = "boolean" -> booleanValue(rawValue)
      [] OTHER -> Typed("string", rawValue)

NodeOperations == {"browse", "get", "set", "subscribe", "other"}
NodePaths == {<<>>, <<"a">>, <<".", "a">>}
RawValues == {<<>>, <<"6">>, <<"x">>, <<"Y", "e", "s", " ">>, <<"n", "o">>}
ValueTypes == {"number", "boolean", "string"}

\* the parameters execute() reads for one item: 'value' and 'valueType' are
\* read by executeSet alone, and only once the path has passed its tests
Items ==
    {NodeItem("set", <<"a">>, v, t) : v \in RawValues, t \in ValueTypes}
    \cup {NodeItem("set", p, <<"6">>, "number") : p \in NodePaths}
    \cup {NodeItem(o, p, <<>>, "none") : o \in NodeOperations \ {"set"}, p \in NodePaths}

\* executeGet, executeSet, executeSubscribe or the switch of execute() throw
\* before any call of the client
throwsBeforeCall(item) ==
    CASE item.operation = "browse" -> FALSE
      [] item.operation \in {"get", "subscribe"} ->
            item.path = <<>> \/ ~validatePath(item.path)
      [] item.operation = "set" ->
            \/ item.path = <<>>
            \/ ~validatePath(item.path)
            \/ typedValue(item.value, item.valueType) = Invalid
      [] OTHER -> TRUE

\* the call of the client an item leads to: executeSubscribe calls get
ClientCall(op, path, value) == [op |-> op, path |-> path, value |-> value]
clientCall(item) ==
    CASE item.operation = "browse" -> ClientCall("browse", item.path, NoValue)
      [] item.operation = "set" ->
            ClientCall("set", item.path, typedValue(item.value, item.valueType))
      [] OTHER -> ClientCall("get", item.path, NoValue)

\* the calls made once the loop body has started on the item
callsWith(calls, item) ==
    IF item = NoItem \/ throwsBeforeCall(item) THEN calls
    ELSE Append(calls, clientCall(item))

ConnectResults == {Ok, Fail("CONNECTION_FAILED"), Fail("CONNECTION_TIMEOUT")}

\* what the client can return to the call
ClientResults(call) ==
    IF /\ ~(call.op = "browse" /\ call.path = <<>>)
       /\ ~validatePathInput(call.path).success
    THEN {Fail("NOT_CONNECTED"), Fail("INVALID_PATH")}
    ELSE {Ok} \cup {Fail(c) : c \in {"NOT_CONNECTED", "INVALID_PATH", "PATH_NOT_FOUND",
                                     "CONNECTION_TIMEOUT", "OPERATION_FAILED"}}

\* what the await of the executeX of the item can be handed: nothing of the
\* client (written Ok) where executeX throws before its call
SettledResults(item) ==
    IF item = NoItem \/ throwsBeforeCall(item) THEN {Ok}
    ELSE ClientResults(clientCall(item))

\* an error object: which class it is and the code it carries
NodeOperationError == [isEmberPlusError |-> FALSE, code |-> "undefined"]
createPathError(errorCode) == NodeOperationError
isEmberPlusError(error) == error.isEmberPlusError

\* the json of a result item and of the error item of the catch block
ResultRecord(index, item) ==
    [pairedItem |-> index, error |-> FALSE, errorCode |-> "absent",
     operation |-> item.operation,
     value |-> IF item.operation = "set" THEN clientCall(item).value ELSE NoValue]
ErrorRecord(index, error) ==
    [pairedItem |-> index, error |-> TRUE,
     errorCode |-> IF isEmberPlusError(error) THEN error.code ELSE "undefined",
     operation |-> "absent", value |-> NoValue]

\* execute() is called and runs up to the await of client.connect()
NodeExecute(cof, n) ==
    /\ nodePhase = "idle"
    /\ nodePhase' = "connecting"
    /\ continueOnFail' = cof
    /\ numItems' = n
    /\ nlast' = NStep("execute", 0, NoItem, Ok)
    /\ UNCHANGED <<itemIndex, current, returnData, raised, connectResult, clientCalls,
                   disconnects>>

\* the try block is left without the call of client.disconnect()
Finally_NoDisconnect ==
    /\ nodePhase' = "disconnecting"
    /\ UNCHANGED disconnects

\* the try block is left, by its end or by a throw: the finally block calls
\* client.disconnect() and stops at its await
Finally ==
    /\ nodePhase' = "disconnecting"
    /\ disconnects' = disconnects + 1

\* the loop reaches itemIndex i with returnData data: it starts on the item
\* there and stops at the await of its executeX, or leaves for the finally
\* block
EnterLoop(i, data) ==
    /\ itemIndex' = i
    /\ returnData' = data
    /\ IF i < numItems
       THEN \E item \in Items :
                /\ nodePhase' = "awaiting"
                /\ current' = item
                /\ clientCalls' = callsWith(clientCalls, item)
                /\ UNCHANGED disconnects
       ELSE /\ Finally
            /\ current' = NoItem
            /\ UNCHANGED clientCalls

\* a failed connect leaves for the loop as a successful one does
connectAborts_Never(res) == FALSE

\* if (!connectResult.success) throw
connectAborts(res) == ~res.success

\* client.connect() has returned
NodeConnectReturned(res) ==
    /\ nodePhase = "connecting"
    /\ connectResult' = res
    /\ IF connectAborts(res)
       THEN /\ raised' = TRUE
            /\ Finally
            /\ nlast' = NStep("connectFailed", 0, NoItem, res)
            /\ UNCHANGED <<itemIndex, current, returnData, clientCalls>>
       ELSE /\ EnterLoop(0, returnData)
            /\ nlast' = NStep("connected", 0, NoItem, res)
            /\ UNCHANGED raised
    /\ UNCHANGED <<continueOnFail, numItems>>

\* the catch block stops at the first failure whatever continueOnFail() says
continues_Never == FALSE

\* if (this.continueOnFail())
continues == continueOnFail

\* the await of executeX settles: the result is pushed, or the catch block
\* pushes an error item or rethrows, and the loop goes on to the next item
NodeItemSettled(res) ==
    /\ nodePhase = "awaiting"
    /\ LET threw == throwsBeforeCall(current)
           failed == threw \/ ~res.success
           error == IF threw THEN NodeOperationError
                    ELSE createPathError(res.errorCode)
       IN  IF ~failed
           THEN /\ EnterLoop(itemIndex + 1,
                             Append(returnData, ResultRecord(itemIndex, current)))
                /\ nlast' = NStep("pushed", itemIndex, current, res)
                /\ UNCHANGED raised
           ELSE IF continues
           THEN /\ EnterLoop(itemIndex + 1,
                             Append(returnData, ErrorRecord(itemIndex, error)))
                /\ nlast' = NStep("caught", itemIndex, current, res)
                /\ UNCHANGED raised
           ELSE /\ raised' = TRUE
                /\ Finally
                /\ current' = NoItem
                /\ nlast' = NStep("thrown", itemIndex, current, res)
                /\ UNCHANGED <<itemIndex, returnData, clientCalls>>
    /\ UNCHANGED <<continueOnFail, numItems, connectResult>>

\* what client.disconnect() can return: it catches what the session throws
DisconnectResults == {Ok, Fail("DISCONNECTION_FAILED")}

\* the finally block's client.disconnect() has returned res, which is not
\* looked at: execute() returns [returnData] or the error thrown goes on to
\* the caller
NodeDisconnected(res) ==
    /\ nodePhase = "disconnecting"
    /\ nodePhase' = "done"
    /\ nlast' = NStep("disconnected", itemIndex, NoItem, res)
    /\ UNCHANGED <<continueOnFail, numItems, itemIndex, current, returnData, raised,
                   connectResult, clientCalls, disconnects>>

NodeNext ==
    \/ \E cof \in BOOLEAN, n \in 0..MaxItems :
            NodeExecute(cof, n) /\ UNCHANGED <<cvars, tvars, pvars>>
    \/ \E res \in ConnectResults :
            NodeConnectReturned(res) /\ UNCHANGED <<cvars, tvars, pvars>>
    \/ \E res \in SettledResults(current) :
            NodeItemSettled(res) /\ UNCHANGED <<cvars, tvars, pvars>>
    \/ \E res \in DisconnectResults :
            NodeDisconnected(res) /\ UNCHANGED <<cvars, tvars, pvars>>

NodeSpec == Init /\ [][NodeNext]_vars

NodeTypeOK ==
    /\ nodePhase \in {"idle", "connecting", "awaiting", "disconnecting", "done"}
    /\ continueOnFail \in BOOLEAN
    /\ numItems \in 0..MaxItems
    /\ itemIndex \in 0..numItems
    /\ current \in Items \cup {NoItem}
    /\ Len(returnData) <= numItems
    /\ raised \in BOOLEAN
    /\ connectResult \in ConnectResults
    /\ Len(clientCalls) <= numItems
    /\ disconnects \in 0..1

\* ================================================================ pathUtils
\* validatePath and isNumericPath as pure functions of a string: the string
\* is drawn at the start and one step applies both to it.

MaxPathLen == 4
PathAlphabet == {"0", "7", ".", "a", " ", "/", "\n"}
PathStrings == UNION {[1..n -> PathAlphabet] : n \in 0..MaxPathLen}

\* isNumericPath with some() in the place of every()
isNumericPath_Some(path) ==
    IF path = <<>> \/ Trim(path) = <<>> THEN FALSE
    ELSE \E k \in DOMAIN SplitDot(path) : isNumericSegment(SplitDot(path)[k])

\* isNumericPath(path): the split is of the untrimmed string
isNumericPath(path) ==
    IF path = <<>> \/ Trim(path) = <<>> THEN FALSE
    ELSE \A k \in DOMAIN SplitDot(path) : isNumericSegment(SplitDot(path)[k])

PathInit ==
    /\ ClientInit
    /\ TriggerIdle
    /\ NodeIdle
    /\ pathArg \in PathStrings
    /\ pathResult = NotCalled
    /\ ancestorArg = <<>>
    /\ normalizeResult = NotNormalized
    /\ relationResult = NotRelated

\* validatePath(pathArg) and isNumericPath(pathArg) return
PathApplied ==
    /\ pathResult = NotCalled
    /\ pathResult' = PathResult(validatePath(pathArg), isNumericPath(pathArg))
    /\ UNCHANGED <<pathArg, ancestorArg, normalizeResult, relationResult, cvars, tvars,
                   nvars>>

\* normalizePath(pathArg) returns and is applied to its own result
PathNormalized ==
    /\ normalizeResult = NotNormalized
    /\ normalizeResult' = NormalizeResult(normalizePath(pathArg),
                                          normalizePath(normalizePath(pathArg)))
    /\ UNCHANGED <<pathArg, pathResult, ancestorArg, relationResult, cvars, tvars, nvars>>

PathNext == PathApplied \/ PathNormalized

PathSpec == PathInit /\ [][PathNext]_vars

\* ------------------------------------------------ isDescendantOf, isChildOf
MaxDepth == 3
RelationSegments == {<<"a">>, <<"a", "b">>, <<" ", "b">>, <<>>}
RelationPaths ==
    {JoinDot(segs) : segs \in UNION {[1..n -> RelationSegments] : n \in 0..MaxDepth}}

\* getPathDepth(path)
getPathDepth(path) ==
    IF normalizePath(path) = <<>> THEN 0 ELSE Len(SplitDot(normalizePath(path)))

\* String.prototype.startsWith
startsWith(s, prefix) ==
    Len(prefix) <= Len(s) /\ SubSeq(s, 1, Len(prefix)) = prefix

\* isDescendantOf with startsWith(normalizedAncestor), the dot left out
isDescendantOf_NoBoundary(path, ancestorPath) ==
    IF normalizePath(ancestorPath) = <<>> THEN Len(normalizePath(path)) > 0
    ELSE IF normalizePath(path) = <<>> THEN FALSE
    ELSE startsWith(normalizePath(path), normalizePath(ancestorPath))

\* isDescendantOf(path, ancestorPath)
isDescendantOf(path, ancestorPath) ==
    IF normalizePath(ancestorPath) = <<>> THEN Len(normalizePath(path)) > 0
    ELSE IF normalizePath(path) = <<>> THEN FALSE
    ELSE startsWith(normalizePath(path), normalizePath(ancestorPath) \o <<".">>)

\* isChildOf(path, parentPath)
isChildOf(path, parentPath) ==
    IF ~isDescendantOf(path, parentPath) THEN FALSE
    ELSE getPathDepth(normalizePath(path)) = getPathDepth(normalizePath(parentPath)) + 1

RelationInit ==
    /\ ClientInit
    /\ TriggerIdle
    /\ NodeIdle
    /\ pathArg \in RelationPaths
    /\ ancestorArg \in RelationPaths
    /\ pathResult = NotCalled
    /\ normalizeResult = NotNormalized
    /\ relationResult = NotRelated

\* isDescendantOf(pathArg, ancestorArg) and isChildOf(pathArg, ancestorArg)
\* return
RelationApplied ==
    /\ relationResult = NotRelated
    /\ relationResult' = RelationResult(isDescendantOf(pathArg, ancestorArg),
                                        isChildOf(pathArg, ancestorArg))
    /\ UNCHANGED <<pathArg, ancestorArg, pathResult, normalizeResult, cvars, tvars, nvars>>

RelationNext == RelationApplied

RelationSpec == RelationInit /\ [][RelationNext]_vars

\* ================================================================ claims
DataOps == {"browse", "get", "set", "subscribe"}
DataCalls == {"getElementByPath", "getDirectory", "setValue", "subscribe"}
EmptyRegistry == [p \in RegistryKeys |-> "none"]
\* a flow suspended in connect() at its race, and one in disconnect()
ConnectFlow == Await("connect", "connect", <<>>, "none", TRUE)
DisconnectFlow == Await("disconnect", "disconnect", <<>>, "none", FALSE)

\* C1: get, set, browse and subscribe invoked while the client is not
\* Connected return NOT_CONNECTED for any path, issue no session call and
\* change neither the lifecycle flags nor the subscription registry.
C1_NotConnectedGate ==
    [][(last'.act \in DataOps /\ ~connected) =>
          /\ last'.ret
          /\ last'.res = Fail("NOT_CONNECTED")
          /\ last'.calls = {}
          /\ UNCHANGED <<connected, connecting, subscriptions, sessionSubs, tasks>>]_vars

C1_Witness ==
    /\ last.act = "subscribe"
    /\ last.path = <<"a">>
    /\ last.pre = "Disconnected"
    /\ connectCalls = 0
    /\ last.ret
    /\ last.res.errorCode = "NOT_CONNECTED"

\* C2: no data operation begins a remote session call (path resolution,
\* directory fetch, value write, session subscribe) while the lifecycle
\* state is not Connected.
C2_RemoteCallOnlyWhenConnected ==
    (last.calls \cap DataCalls # {}) => last.pre = "Connected"

\* C3: the flags connected and connecting are never both true.
C3_OneLifecycleState ==
    ~(connected /\ connecting)

C3_Witness ==
    /\ last.act = "onConnected"
    /\ last.pre = "Connecting"
    /\ connected
    /\ \E f \in Flows : f.pc = "connect"

\* C4: connect() called in state Disconnected moves to Connecting, issues
\* the session connect raced against the timer, and ends in exactly one of
\* three ways: success with state Connected, CONNECTION_TIMEOUT with state
\* Disconnected, CONNECTION_FAILED with state Disconnected.
C4_ConnectOutcomes ==
    [][/\ (last'.act = "connect" /\ State = "Disconnected") =>
             /\ State' = "Connecting"
             /\ ~last'.ret
             /\ last'.calls = {"connect"}
             /\ tasks' = tasks (+) SetToBag({ConnectFlow})
             /\ ConnectFlow.timed
       /\ (CopiesIn(ConnectFlow, tasks') < CopiesIn(ConnectFlow, tasks)) =>
             /\ last'.ret
             /\ \/ /\ last'.act = "connectResolved"
                   /\ last'.res = Ok
                   /\ connected' /\ ~connecting'
                \/ /\ last'.act = "connectTimedOut"
                   /\ last'.res = Fail("CONNECTION_TIMEOUT")
                   /\ ~connected' /\ ~connecting'
                \/ /\ last'.act = "connectRejected"
                   /\ last'.res = Fail("CONNECTION_FAILED")
                   /\ ~connected' /\ ~connecting']_vars

C4_Witness ==
    /\ last.act = "connectTimedOut"
    /\ last.pre = "Connecting"
    /\ last.res = Fail("CONNECTION_TIMEOUT")
    /\ State = "Disconnected"

\* C5: connect() called while Connected returns success, leaves the state
\* Connected and issues no session connect.
C5_ConnectIdempotent ==
    [][(last'.act = "connect" /\ connected) =>
          /\ last'.ret
          /\ last'.res = Ok
          /\ last'.calls = {}
          /\ connectCalls' = connectCalls
          /\ connected' /\ ~connecting'
          /\ UNCHANGED tasks]_vars

C5_Witness ==
    /\ last.act = "connect"
    /\ last.pre = "Connected"
    /\ last.ret
    /\ last.res = Ok
    /\ connectCalls = 1

\* C6: connect() called while another connect() is in progress returns a
\* failure of kind OPERATION_FAILED, issues no second session connect and
\* leaves the lifecycle state unchanged.
C6_ConnectInProgress ==
    (last.act = "connect" /\ last.pre = "Connecting") =>
        /\ last.ret
        /\ last.res = Fail("OPERATION_FAILED")
        /\ last.calls = {}
        /\ State = "Connecting"

\* C7: disconnect() called in state Disconnected returns success, performs
\* no session disconnect and leaves state and registry unchanged.
C7_DisconnectIdempotent ==
    [][(last'.act = "disconnect" /\ State = "Disconnected") =>
          /\ last'.ret
          /\ last'.res = Ok
          /\ last'.calls = {}
          /\ UNCHANGED <<connected, connecting, subscriptions, sessionSubs, tasks>>]_vars

C7_Witness ==
    /\ last.act = "disconnect"
    /\ last.pre = "Disconnected"
    /\ last.ret
    /\ \E p \in RegistryKeys : subscriptions[p] # "none"

\* C8: disconnect() called in a state other than Disconnected invokes the
\* session's disconnect and ends, whether that call resolves or rejects,
\* with state Disconnected and an empty registry; the result is
\* DISCONNECTION_FAILED when the session's disconnect failed, else success.
C8_DisconnectForcesReset ==
    [][/\ (last'.act = "disconnect" /\ State # "Disconnected") =>
             /\ ~last'.ret
             /\ last'.calls = {"disconnect"}
             /\ tasks' = tasks (+) SetToBag({DisconnectFlow})
       /\ (CopiesIn(DisconnectFlow, tasks') < CopiesIn(DisconnectFlow, tasks)) =>
             /\ last'.ret
             /\ State' = "Disconnected"
             /\ subscriptions' = EmptyRegistry
             /\ \/ last'.act = "disconnectResolved" /\ last'.res = Ok
                \/ last'.act = "disconnectRejected"
                   /\ last'.res = Fail("DISCONNECTION_FAILED")]_vars

C8_Witness ==
    /\ last.act = "disconnectRejected"
    /\ last.pre = "Connected"
    /\ last.res = Fail("DISCONNECTION_FAILED")
    /\ State = "Disconnected"
    /\ subscriptions = EmptyRegistry
    /\ sessionSubs # {}

\* C9: a disconnected notification received in any lifecycle state leaves
\* the client Disconnected, so that a data operation invoked next gets
\* NOT_CONNECTED from ensureConnected.
C9_DisconnectedNotification ==
    [][(last'.act = "onDisconnected") =>
          /\ State' = "Disconnected"
          /\ ~connected' /\ ~connecting'
          /\ ensureConnected' = Fail("NOT_CONNECTED")]_vars

C9_Witness ==
    /\ last.act = "onDisconnected"
    /\ last.pre = "Connecting"
    /\ State = "Disconnected"

\* C10: every remote call made by get, set, browse and subscribe is raced
\* against the per-operation timer: a data operation never waits on a
\* session promise without an armed timer.
C10_EveryRemoteCallTimed ==
    \A f \in Flows : f.pc \in DataAwaits => f.timed

\* C11: while Connected, get, set and subscribe with an empty or
\* whitespace-only path, and all four operations with a path validatePath
\* rejects, return INVALID_PATH, issue no session call and leave registry
\* and flows alone; for a non-empty path the four operations reject exactly
\* the same strings.
C11_InvalidPathGate ==
    [][(last'.act \in DataOps /\ connected) =>
          /\ (\/ ~validatePath(last'.path)
              \/ (last'.act # "browse" /\ Trim(last'.path) = <<>>)) =>
                /\ last'.ret
                /\ last'.res = Fail("INVALID_PATH")
                /\ last'.calls = {}
                /\ UNCHANGED <<connected, connecting, subscriptions, sessionSubs, tasks>>
          /\ (last'.path # <<>>) =>
                ((last'.ret /\ last'.res = Fail("INVALID_PATH"))
                    <=> (Trim(last'.path) = <<>> \/ ~validatePath(last'.path)))]_vars

C11_Witness ==
    /\ last.act = "browse"
    /\ last.path = <<".", "a">>
    /\ last.pre = "Connected"
    /\ last.ret
    /\ last.res = Fail("INVALID_PATH")

ResolvedActs == {"browseResolved", "getResolved", "setResolved", "subscribeResolved"}

\* C12: when getElementByPath resolves to no node, browse (of a non-root
\* path), get, set and subscribe return PATH_NOT_FOUND, issue no further
\* session call and leave the registry unchanged.
C12_PathNotFound ==
    [][(last'.act \in ResolvedActs /\ last'.input = "null") =>
          /\ last'.ret
          /\ last'.res = Fail("PATH_NOT_FOUND")
          /\ last'.calls = {}
          /\ UNCHANGED <<connected, connecting, subscriptions, sessionSubs>>]_vars

C12_Witness ==
    /\ last.act = "subscribeResolved"
    /\ last.input = "null"
    /\ last.res = Fail("PATH_NOT_FOUND")
    /\ subscriptions[<<"a">>] = "cb1"

\* C13 (as stated): set on a node without a value slot returns INVALID_PATH
\* and issues no write; on a parameter it issues the write and returns
\* success only after the acknowledgement of the write has arrived.
C13_SetAwaitsAcknowledgement ==
    /\ (last.act = "setResolved" /\ last.input = "node") =>
          (last.ret /\ last.res = Fail("INVALID_PATH") /\ last.calls = {})
    /\ (last.act = "setResolved" /\ last.input = "parameter") =>
          (~last.ret /\ last.calls = {"setValue"})
    /\ (last.op = "set" /\ last.ret /\ last.res.success) =>
          last.act = "setValueResponse"

\* C13 (amended): as above, but success is returned after the
\* acknowledgement only when the request carries a response promise; when it
\* carries none, set returns success as soon as the write was sent.
C13_SetOutcomes ==
    /\ (last.act = "setResolved" /\ last.input = "node") =>
          (last.ret /\ last.res = Fail("INVALID_PATH") /\ last.calls = {})
    /\ (last.act = "setResolved" /\ last.input = "parameter") =>
          (~last.ret /\ last.calls = {"setValue"})
    /\ (last.act = "setValueSent" /\ last.input = "response") => ~last.ret
    /\ (last.act = "setValueSent" /\ last.input = "noResponse") =>
          (last.ret /\ last.res = Ok)
    /\ (last.op = "set" /\ last.ret /\ last.res.success) =>
          \/ last.act = "setValueResponse"
          \/ last.act = "setValueSent" /\ last.input = "noResponse"

C13_Witness ==
    /\ last.act = "setValueResponse"
    /\ last.ret
    /\ last.res = Ok

\* C14 (as stated): after a subscribe that fails by resolution failure,
\* timeout or rejection of the session, the registry has no entry for the
\* path.
C14_FailedSubscribeLeavesNoEntry ==
    (/\ last.op = "subscribe"
     /\ last.act \in {"subscribeResolved", "rejected", "timedOut"}
     /\ last.ret
     /\ ~last.res.success) => subscriptions[last.path] = "none"

\* C14 (amended): a failed subscribe leaves no entry of its own: failing by
\* timeout or rejection it ends with no entry for the path; failing with
\* NOT_CONNECTED, INVALID_PATH or PATH_NOT_FOUND it has not touched the
\* registry, so an entry of an earlier subscribe stays.
C14_FailedSubscribeRollback ==
    [][(last'.op = "subscribe" /\ last'.ret /\ ~last'.res.success) =>
          IF last'.act \in {"rejected", "timedOut"}
          THEN subscriptions'[last'.path] = "none"
          ELSE /\ last'.res.errorCode \in {"NOT_CONNECTED", "INVALID_PATH", "PATH_NOT_FOUND"}
               /\ UNCHANGED subscriptions]_vars

C14_Witness ==
    /\ last.op = "subscribe"
    /\ last.act = "rejected"
    /\ last.res = Fail("OPERATION_FAILED")
    /\ <<"a">> \in sessionSubs
    /\ subscriptions[<<"a">>] = "none"

\* C15: the registry holds at most one entry per canonical path (two path
\* strings with the same normalized form never both have an entry), and an
\* update invokes the callback of the latest successful subscribe only.
C15_OneEntryPerCanonicalPath ==
    /\ \A p, q \in RegistryKeys :
          (/\ subscriptions[p] # "none"
           /\ subscriptions[q] # "none"
           /\ normalizePath(p) = normalizePath(q)) => p = q
    /\ (last.act = "onUpdate" /\ last.invoked # "none") =>
          last.invoked = subscriptions[last.path]


\* C16: unsubscribe(path) always returns: it removes the entry of the path,
\* returns true exactly when there was one, leaves every other entry and the
\* lifecycle flags alone; an update for a path without an entry invokes no
\* callback.
C16_UnsubscribeRemovesEntry ==
    /\ [][last'.act = "unsubscribe" =>
            /\ last'.ret
            /\ last'.res.success =
                  (last'.path \in RegistryKeys /\ subscriptions[last'.path] # "none")
            /\ \A p \in RegistryKeys :
                  subscriptions'[p] = IF p = last'.path THEN "none" ELSE subscriptions[p]
            /\ UNCHANGED <<connected, connecting, tasks, sessionSubs>>]_vars
    /\ []((last.act = "onUpdate" /\ subscriptions[last.path] = "none") =>
            last.invoked = "none")

\* unsubscribe removed the entry of a path the session still delivers updates
\* for, while the other spelling keeps its entry
C16_Witness ==
    /\ last.act = "unsubscribe"
    /\ last.res.success
    /\ last.path \in sessionSubs
    /\ subscriptions[last.path] = "none"
    /\ \E q \in RegistryKeys : subscriptions[q] # "none"


\* C17: in the update handler of the trigger, with onlyOnChange an update
\* whose value equals the stored previousValue is dropped unless no value was
\* emitted yet, so the second of two consecutive updates with equal values is
\* dropped and the two never yield two records; the first update, and every
\* update when onlyOnChange is off, is handed to emit.
C17_ChangeFilter ==
    /\ [][tlast'.act = "update" =>
            /\ (onlyOnChange /\ ~isFirstValue /\ tlast'.value = previousValue) =>
                  /\ tlast'.outcome = "dropped"
                  /\ UNCHANGED <<previousValue, isFirstValue, lastRecord>>
            /\ (~onlyOnChange \/ isFirstValue) =>
                  tlast'.outcome \in {"emitted", "threw"}]_vars
    /\ [][(/\ tlast.act = "update"
           /\ tlast'.act = "update"
           /\ onlyOnChange
           /\ tlast'.value = tlast.value) =>
            /\ tlast.outcome # "threw" => tlast'.outcome = "dropped"
            /\ ~(tlast.outcome = "emitted" /\ tlast'.outcome = "emitted")]_vars

\* an update repeating the value of the record emitted just before is dropped
C17_Witness ==
    /\ onlyOnChange
    /\ tlast.act = "update"
    /\ tlast.outcome = "dropped"
    /\ tlast.value = tlast.prior
    /\ tlast.value = previousValue


\* C18 (as claimed): with onlyOnChange every record emitted for an update
\* carries a value different from the value of the record emitted before it.
C18_EmittedDiffersFromPreviousRecord ==
    (/\ onlyOnChange
     /\ tlast.act = "update"
     /\ tlast.outcome = "emitted"
     /\ tlast.prior # "none") => tlast.value # tlast.prior

\* C18 (amended): with onlyOnChange every record emitted for an update is the
\* first record or carries a value different from the stored previousValue;
\* previousValue is the value of the record emitted before unless
\* setupSubscription has fetched the current value since, which it does at
\* every reconnection without emitting.
C18_EmittedDiffersFromStored ==
    /\ [][(/\ onlyOnChange
           /\ tlast'.act = "update"
           /\ tlast'.outcome = "emitted"
           /\ tlast'.prior # "none") => tlast'.value # previousValue]_vars
    /\ [][previousValue' # previousValue =>
            \/ tlast'.outcome = "emitted" /\ previousValue' = tlast'.value
            \/ tlast'.act = "resolved" /\ previousValue' = tlast'.value]_vars
    /\ [][lastRecord' # lastRecord =>
            /\ tlast'.outcome = "emitted"
            /\ lastRecord' = tlast'.value
            /\ previousValue' = tlast'.value]_vars
    /\ [](isFirstValue <=> lastRecord = "none")

\* after a reconnection fetched another value, an update is emitted that
\* repeats the value of the record before it
C18_Witness ==
    /\ onlyOnChange
    /\ tlast.act = "update"
    /\ tlast.outcome = "emitted"
    /\ tlast.prior = tlast.value


\* C19: what a subscription callback throws, and what emitting throws in
\* the trigger, is caught in the update handler: the handler returns normally
\* to the session, registry, lifecycle flags and filter state are as before,
\* and the next update of the path is dispatched in the same way again.
C19_DispatchSurvivesThrow ==
    /\ [][(last'.act = "onUpdate" /\ last'.input = "throws") =>
            /\ last'.res = Ok
            /\ last'.invoked = subscriptions[last'.path]
            /\ UNCHANGED <<connected, connecting, subscriptions, tasks, sessionSubs>>]_vars
    /\ [][(/\ last.act = "onUpdate" /\ last.input = "throws"
           /\ last'.act = "onUpdate" /\ last'.path = last.path) =>
            last'.invoked = last.invoked]_vars
    /\ [][(tlast'.act = "update" /\ tlast'.outcome = "threw") =>
            UNCHANGED <<phase, previousValue, isFirstValue, isConnected,
                        reconnectAttempts, pending, handler, lastRecord>>]_vars
    /\ [][(/\ tlast.act = "update" /\ tlast.outcome = "threw"
           /\ tlast'.act = "update" /\ tlast'.value = tlast.value) =>
            tlast'.outcome \in {"emitted", "threw"}]_vars
    /\ []((last.act = "onUpdate" /\ last.input = "throws") => last.path \in sessionSubs)
    /\ []((tlast.act = "update" /\ tlast.outcome = "threw") => handler)

\* a callback of the client and an emission of the trigger have both thrown
C19_Witness ==
    /\ last.act = "onUpdate"
    /\ last.input = "throws"
    /\ last.invoked = "cb1"
    /\ tlast.act = "update"
    /\ tlast.outcome = "threw"


\* the reconnect supervisor has nothing pending: no delay runs and no
\* connect() is awaited
SupervisorIdle == \A f \in TFlows : f.pc \notin {"delay", "connect"}

\* C20: against a session whose connect always fails, the supervisor calls
\* client.connect() at most maxReconnectAttempts times, each call being the
\* continuation of one elapsed delay; once a disconnected notification has
\* come and nothing is pending any more it has made exactly
\* maxReconnectAttempts calls and isConnected is false; after that a further
\* disconnected notification starts nothing.
C20_ReconnectCap ==
    /\ [](issued <= maxReconnectAttempts /\ reconnectAttempts <= maxReconnectAttempts)
    /\ [][issued' # issued =>
            /\ issued' = issued + 1
            /\ \E f \in TFlows :
                  /\ f.pc = "delay"
                  /\ pending' = TReplace(f, TFlow("connect", "reconnect"))]_vars
    /\ []((reconnectAttempts > 0 /\ SupervisorIdle) =>
            /\ issued = maxReconnectAttempts
            /\ reconnectAttempts = maxReconnectAttempts
            /\ ~isConnected)
    /\ [][(issued = maxReconnectAttempts /\ SupervisorIdle) =>
            /\ issued' = issued
            /\ SupervisorIdle'
            /\ UNCHANGED <<reconnectAttempts, isConnected>>]_vars

\* the budget is used up and a further disconnected notification has arrived
C20_Witness ==
    /\ issued = maxReconnectAttempts
    /\ reconnectAttempts = maxReconnectAttempts
    /\ pending = EmptyBag
    /\ ~isConnected
    /\ tlast.act = "onDisconnected"


\* the number of flows of the bag b waiting in the delay of attemptReconnect
Delays(b) == CopiesIn(TFlow("delay", "reconnect"), b)

C22_ResubscribeAfterReconnect ==
    /\ [][tlast'.act = "connectResolved" =>
            /\ isConnected'
            /\ \E f \in TFlows :
                  /\ f.pc = "connect"
                  /\ pending' = TReplace(f, TFlow("resolve", f.chain))]_vars
    /\ [][(tlast'.act = "resolved" /\ tlast'.value # "missing") =>
            /\ handler'
            /\ tlast'.value \in Values => previousValue' = tlast'.value
            /\ \E f \in TFlows :
                  /\ f.pc = "resolve"
                  /\ pending' = TReplace(f, TFlow("subscribe", f.chain))]_vars
    /\ [][(/\ tlast'.act = "update"
           /\ stringify(tlast'.value) # stringify(previousValue)) =>
            tlast'.outcome \in {"emitted", "threw"}]_vars
    /\ []((\E f \in TFlows : f.pc = "subscribe") => handler)

\* after records were emitted, a reconnection has fetched a newer value and
\* issued the subscription again
C22_Witness ==
    /\ tlast.act = "resolved"
    /\ tlast.value \in Values
    /\ TFlow("subscribe", "reconnect") \in TFlows
    /\ handler
    /\ previousValue = tlast.value
    /\ lastRecord \notin {"none", previousValue}


\* C23: once closeFunction has been called, no delay of attemptReconnect
\* runs out into a connect(), no record is emitted, and isConnected does not
\* become true again.
C23_CloseCancelsReconnect ==
    [][phase = "closed" =>
          /\ tlast'.act # "delayElapsed"
          /\ tlast'.outcome # "emitted"
          /\ isConnected' => isConnected]_vars


\* C24: manualTriggerFunction called while isConnected asks the session for
\* the node, and when the node has a value hands that value to emit whatever
\* onlyOnChange and the stored value are; called while not connected it
\* returns at once: no session call, no emission, no state change.
C24_ManualProbe ==
    /\ [][tlast'.act = "manual" =>
            IF isConnected
            THEN pending' = pending (+) SetToBag({TFlow("manualResolve", "manual")})
            ELSE UNCHANGED <<phase, previousValue, isFirstValue, isConnected,
                             reconnectAttempts, pending, handler, lastRecord>>]_vars
    /\ [][(tlast'.act = "manualResolved" /\ tlast'.value \in Values) =>
            /\ tlast'.outcome \in {"emitted", "threw"}
            /\ tlast'.outcome = "emitted" =>
                  lastRecord' = tlast'.value /\ previousValue' = tlast'.value]_vars
    /\ [][(tlast'.act = "manualResolved" /\ tlast'.value \notin Values) =>
            UNCHANGED <<previousValue, isFirstValue, lastRecord>>]_vars

\* with onlyOnChange the probe emitted a record that repeats the value of
\* the record before it
C24_Witness ==
    /\ onlyOnChange
    /\ tlast.act = "manualResolved"
    /\ tlast.outcome = "emitted"
    /\ tlast.prior = tlast.value


\* the six asynchronous operations of the client
AllOps == DataOps \cup {"connect", "disconnect"}

\* C25: whatever connect, disconnect, browse, get, set or subscribe returns
\* is a success or a failure that carries one of the error kinds.
C25_ResultCarriesKind ==
    (last.ret /\ last.op \in AllOps) =>
        \/ last.res.success /\ last.res.errorCode = "undefined"
        \/ ~last.res.success /\ last.res.errorCode \in ErrorCodes


\* C26: once connect() has returned CONNECTION_FAILED or CONNECTION_TIMEOUT,
\* execute() ends by raising, has processed no item, pushed no record and
\* called no data operation, whether or not continueOnFail() is set.
C26_ConnectFailureAborts ==
    (nodePhase \in {"awaiting", "disconnecting", "done"} /\ ~connectResult.success)
        => /\ connectResult.errorCode \in {"CONNECTION_FAILED", "CONNECTION_TIMEOUT"}
           /\ raised
           /\ nodePhase # "awaiting"
           /\ itemIndex = 0
           /\ current = NoItem
           /\ returnData = <<>>
           /\ clientCalls = <<>>
C26_Witness ==
    /\ nodePhase = "done"
    /\ ~connectResult.success
    /\ continueOnFail
    /\ numItems > 0
    /\ raised


\* the step just taken settled an item that failed: executeX threw before its
\* call of the client, or the client returned a failure
ItemFailed(step) ==
    /\ step.act \in {"pushed", "caught", "thrown"}
    /\ (throwsBeforeCall(step.item) \/ ~step.res.success)

\* C27: with continueOnFail() a failing item adds one error record paired
\* with it and the loop goes on, so that execute() returns one record per
\* input item in input order; without it the first failing item ends the
\* execution by raising, nothing is pushed for it and no later item is started.
C27_ContinueOnFail ==
    /\ []((nodePhase = "done" /\ connectResult.success /\ continueOnFail)
            => /\ ~raised
               /\ Len(returnData) = numItems
               /\ \A i \in 1..Len(returnData) : returnData[i].pairedItem = i - 1)
    /\ []((raised /\ connectResult.success)
            => /\ ~continueOnFail
               /\ nodePhase \in {"disconnecting", "done"}
               /\ itemIndex < numItems
               /\ Len(returnData) = itemIndex
               /\ \A i \in 1..Len(returnData) : ~returnData[i].error)
    /\ [][ItemFailed(nlast') =>
            IF continueOnFail
            THEN /\ Len(returnData') = Len(returnData) + 1
                 /\ returnData'[Len(returnData')].error
                 /\ returnData'[Len(returnData')].pairedItem = itemIndex
                 /\ SubSeq(returnData', 1, Len(returnData)) = returnData
                 /\ itemIndex' = itemIndex + 1
                 /\ ~raised'
                 /\ (itemIndex + 1 < numItems => nodePhase' = "awaiting")
            ELSE /\ raised'
                 /\ nodePhase' = "disconnecting"
                 /\ returnData' = returnData
                 /\ clientCalls' = clientCalls
                 /\ itemIndex' = itemIndex]_vars
C27_Witness ==
    /\ nodePhase = "done"
    /\ continueOnFail
    /\ numItems = 2
    /\ Len(returnData) = 2
    /\ returnData[1].error
    /\ ~returnData[2].error
    /\ Len(clientCalls) = 1


\* C28 (as stated): the error record pushed for an item whose client
\* operation failed carries the errorCode of the failed result; a get of a
\* path the device does not have gives errorCode PATH_NOT_FOUND.
C28_ErrorRecordCarriesKind ==
    [][(nlast'.act = "caught" /\ ~nlast'.res.success)
        => returnData'[Len(returnData')].errorCode = nlast'.res.errorCode]_vars


\* a decimal numeral, white space around it aside
IsNumeral(rawValue) ==
    /\ Trim(rawValue) # <<>>
    /\ \A i \in 1..Len(Trim(rawValue)) : Trim(rawValue)[i] \in Digits

\* the value the set operation is to write for the raw string and the
\* declared kind, Invalid where it is to fail
DeclaredValue(rawValue, valueType) ==
    CASE valueType = "number" ->
            IF IsNumeral(rawValue) THEN Typed("number", StripZeros(Trim(rawValue)))
            ELSE Invalid
      [] valueType = "boolean" ->
            IF Trim(toLowerCase(rawValue)) \in TrueLiterals
            THEN Typed("boolean", <<"t", "r", "u", "e">>)
            ELSE IF Trim(toLowerCase(rawValue)) \in BooleanLiterals
            THEN Typed("boolean", <<"f", "a", "l", "s", "e">>)
            ELSE Invalid
      [] OTHER -> Typed("string", rawValue)

\* C29 (as stated): a set item whose path passes the node's tests calls
\* client.set with the raw string converted to the declared kind; where the
\* raw string is not a number (declared number) or not one of the six
\* boolean literals (declared boolean) no call of the client is made.
C29_SetConvertsOrFails ==
    [][(/\ nodePhase' = "awaiting"
        /\ current'.operation = "set"
        /\ current'.path # <<>>
        /\ validatePath(current'.path))
        => LET declared == DeclaredValue(current'.value, current'.valueType)
           IN  IF declared = Invalid
               THEN clientCalls' = clientCalls
               ELSE clientCalls' =
                        Append(clientCalls, ClientCall("set", current'.path, declared))]_vars


\* the string is made of digits and dots alone
DigitsAndDots(path) == \A i \in DOMAIN path : path[i] \in Digits \cup {"."}

\* digits and dots with every dot between two digits: one or more non-empty
\* runs of digits separated by single dots
DottedNumerals(path) ==
    /\ DigitsAndDots(path)
    /\ path # <<>>
    /\ path[1] # "."
    /\ path[Len(path)] # "."
    /\ \A i \in 1..(Len(path) - 1) : ~(path[i] = "." /\ path[i + 1] = ".")

\* C30 (as stated): for every string of digits and dots validatePath is valid
\* and isNumericPath is true.
C30_DigitsAndDotsValidNumeric ==
    (pathResult.called /\ DigitsAndDots(pathArg))
        => (pathResult.valid /\ pathResult.isNumeric)

\* C30 (amended): for a string of digits and dots, isNumericPath is true
\* exactly when every dot stands between two digits and the string is not
\* empty, and validatePath is valid exactly then or when the string is empty.
C30_DottedNumeralsValidNumeric ==
    (pathResult.called /\ DigitsAndDots(pathArg))
        => /\ pathResult.isNumeric = DottedNumerals(pathArg)
           /\ pathResult.valid = (pathArg = <<>> \/ DottedNumerals(pathArg))
C30_Witness ==
    /\ pathResult = PathResult(TRUE, TRUE)
    /\ pathArg = <<"0", ".", "7", "0">>


\* the characters a segment may not contain
ReservedChars == InvalidChars \cup {"\n", "\r"}

\* C31 (as stated): validatePath is invalid for every string that holds a
\* reserved character at any place; the strings of white space alone, which
\* are valid as root, are left aside.
C31_ReservedCharInvalid ==
    (/\ pathResult.called
     /\ Trim(pathArg) # <<>>
     /\ \E i \in DOMAIN pathArg : pathArg[i] \in ReservedChars)
        => ~pathResult.valid


\* the string has a leading dot, a trailing dot or two dots in a row
EmptySegment(path) ==
    /\ path # <<>>
    /\ \/ path[1] = "."
       \/ path[Len(path)] = "."
       \/ \E i \in 1..(Len(path) - 1) : path[i] = "." /\ path[i + 1] = "."

ReservedFree(path) == \A i \in DOMAIN path : path[i] \notin ReservedChars

\* C32 (as stated): a blank string is valid; a non-blank string with a
\* leading dot, a trailing dot or two dots in a row is invalid; every other
\* string without reserved characters is valid.
C32_ValidExactlyWithoutEmptySegment ==
    (pathResult.called /\ ReservedFree(pathArg))
        => pathResult.valid = (Trim(pathArg) = <<>> \/ ~EmptySegment(pathArg))

\* C32 (amended): the dots are looked for in the string without the white
\* space around it: a blank string is valid, a non-blank string whose trimmed
\* form has a leading dot, a trailing dot or two dots in a row is invalid, and
\* every other string without reserved characters is valid.
C32_ValidExactlyWithoutEmptySegmentTrimmed ==
    (pathResult.called /\ ReservedFree(pathArg))
        => pathResult.valid = (Trim(pathArg) = <<>> \/ ~EmptySegment(Trim(pathArg)))
C32_Witness ==
    /\ pathResult.called
    /\ pathArg = <<"0", ".", "a">>
    /\ pathResult.valid


\* C33: normalizePath returns for every string, applying it to its own
\* result changes nothing, and the result has no leading dot, no trailing
\* dot, no two dots in a row and no segment with white space at its ends.
C33_NormalizeIdempotent ==
    normalizeResult.called
        => /\ normalizeResult.twice = normalizeResult.once
           /\ ~EmptySegment(normalizeResult.once)
           /\ \A k \in DOMAIN SplitDot(normalizeResult.once) :
                 Trim(SplitDot(normalizeResult.once)[k]) = SplitDot(normalizeResult.once)[k]
C33_Witness ==
    /\ normalizeResult.called
    /\ pathArg = <<".", "a", ".", " ">>
    /\ normalizeResult.once = <<"a">>


\* the segments of the normalized path
SegmentsOf(path) ==
    IF normalizePath(path) = <<>> THEN <<>> ELSE SplitDot(normalizePath(path))

\* the segments of path begin with all the segments of ancestor and go on
Extends(path, ancestor) ==
    /\ Len(SegmentsOf(path)) > Len(SegmentsOf(ancestor))
    /\ SubSeq(SegmentsOf(path), 1, Len(SegmentsOf(ancestor))) = SegmentsOf(ancestor)

\* C34: isDescendantOf(p, a) holds exactly when normalize(p) is not empty and
\* normalize(a) is empty or normalize(p) starts with normalize(a) and a dot,
\* that is when the segments of p extend those of a; isChildOf(p, a) holds
\* exactly when p is a descendant with one segment more.  A path of three
\* segments is a child of its first two and not of its first, ab is no
\* descendant of a, and no path is a descendant of itself.
C34_DescendantAndChild ==
    relationResult.called
        => /\ relationResult.isDescendantOf =
                (/\ normalizePath(pathArg) # <<>>
                 /\ \/ normalizePath(ancestorArg) = <<>>
                    \/ startsWith(normalizePath(pathArg),
                                  normalizePath(ancestorArg) \o <<".">>))
           /\ relationResult.isDescendantOf = Extends(pathArg, ancestorArg)
           /\ relationResult.isChildOf =
                (/\ relationResult.isDescendantOf
                 /\ Len(SegmentsOf(pathArg)) = Len(SegmentsOf(ancestorArg)) + 1)
           /\ (pathArg = ancestorArg => ~relationResult.isDescendantOf)
           /\ (pathArg = <<"a", "b">> /\ ancestorArg = <<"a">>)
                => ~relationResult.isDescendantOf
           /\ (pathArg = <<"a", ".", "a", "b", ".", "a">> /\ ancestorArg = <<"a">>)
                => (relationResult.isDescendantOf /\ ~relationResult.isChildOf)
C34_Witness ==
    /\ relationResult.called
    /\ pathArg = <<"a", ".", "a", "b", ".", "a">>
    /\ ancestorArg = <<"a", ".", "a", "b">>
    /\ relationResult.isChildOf


\* C35 (as stated): the connected flag goes from false to true only in a
\* step taken while a connect() call of the caller is suspended at its race.
C35_ConnectedOnlyDuringConnect ==
    [][(~connected /\ connected') => CopiesIn(ConnectFlow, tasks) > 0]_vars


\* C36 (as stated): a subscribe call that returns a failure before it has
\* stored its callback (no subscribe flow is past its subscriptions.set)
\* returns with the registry as it was, so an entry an earlier subscribe
\* stored for the path is still there.
C36_FailedSubscribeKeepsRegistry ==
    [][(/\ last'.op = "subscribe"
        /\ last'.ret
        /\ ~last'.res.success
        /\ \A f \in BagToSet(tasks) : f.pc # "subscribe")
        => subscriptions' = subscriptions]_vars


\* C37 (as stated): between two establishments of the subscription the
\* supervisor calls client.connect() at most maxReconnectAttempts times, also
\* when every connect succeeds and setupSubscription() fails after it.
C37_ReconnectCapAcrossSetupFailures ==
    issued <= maxReconnectAttempts


\* the reconnection attempts under way: attemptReconnect() flows waiting for
\* their delay or inside connect()
ReconnectsPending ==
    LET reconnects == {f \in BagToSet(pending) : f.chain = "reconnect"}
        Sum[S \in SUBSET reconnects] ==
            IF S = {} THEN 0
            ELSE LET f == CHOOSE g \in S : TRUE
                 IN  CopiesIn(f, pending) + Sum[S \ {f}]
    IN  Sum[reconnects]

\* C38 (as stated): at most one reconnection attempt is pending at any time,
\* and two client.connect() calls of the supervisor are never in flight
\* together.
C38_OneReconnectPending ==
    /\ ReconnectsPending <= 1
    /\ CopiesIn(TFlow("connect", "reconnect"), pending) <= 1


\* C39 (as stated): the first record emitted has no previousValue field and
\* the field of every later record is the value of the record emitted
\* before it.
C39_PreviousValueIsPreviousRecord ==
    [][tlast'.outcome = "emitted" =>
          outputPreviousValue = (IF lastRecord = "none" THEN "absent" ELSE lastRecord)]_vars

\* C39 (amended): the first record emitted has no previousValue field; the
\* field of a later record is the stored last value.  Emitting a record
\* stores its value, and the stored value changes otherwise only when
\* setupSubscription() stores the value it fetched, so the field is the value
\* of the record before unless the subscription was set up again in between.
C39_PreviousValueIsStoredValue ==
    /\ [](isFirstValue <=> lastRecord = "none")
    /\ [][tlast'.outcome = "emitted" =>
            /\ (lastRecord = "none" => outputPreviousValue = "absent")
            /\ (lastRecord # "none" => outputPreviousValue = previousValue)
            /\ previousValue' = tlast'.value
            /\ previousValue' = lastRecord']_vars
    /\ [][previousValue' # previousValue =>
            \/ tlast'.outcome = "emitted"
            \/ (tlast'.act = "resolved" /\ previousValue' = tlast'.value)]_vars
C39_Witness ==
    /\ tlast.outcome = "emitted"
    /\ tlast.act = "manualResolved"
    /\ tlast.prior # "none"
    /\ previousValue = lastRecord
    /\ ~isFirstValue


\* C40: execute() calls client.disconnect() once on every path, and only when
\* the processing of the items is over: no call before the try block is
\* left, one call from then on, no operation on the client and no record
\* pushed after it; what disconnect() returns, a failure included, changes
\* neither the records returned nor whether execute() throws.
C40_DisconnectOnceAtTheEnd ==
    /\ [](disconnects = IF nodePhase \in {"disconnecting", "done"} THEN 1 ELSE 0)
    /\ [][disconnects >= 1 =>
            /\ clientCalls' = clientCalls
            /\ returnData' = returnData
            /\ raised' = raised
            /\ disconnects' = disconnects]_vars
    /\ [][disconnects' # disconnects =>
            \/ nlast'.act \in {"connectFailed", "thrown"}
            \/ (nlast'.act \in {"connected", "pushed", "caught"} /\ itemIndex' = numItems)]_vars
C40_Witness ==
    /\ nodePhase = "done"
    /\ nlast.act = "disconnected"
    /\ ~nlast.res.success
    /\ ~raised
    /\ Len(returnData) = numItems
    /\ numItems > 0
    /\ disconnects = 1

====
